---- MODULE Spec2Model ----
(***************************************************************************)
(* Batch LLM-classification pipeline of the Google-Alert news agent:       *)
(* the batch response decoder (_parse_batch_response), the candidate store *)
(* (DatabaseManager) and the batch orchestrators                           *)
(* (DeepSeekFilter.batch_filter_articles_optimized,                        *)
(* LangchainProcessor.filter_articles_chain, ArticleFilterChain._call).    *)
(***************************************************************************)
EXTENDS Integers, Sequences, FiniteSets, TLC

(***************************************************************************)
(* Bounds of the model.                                                    *)
(***************************************************************************)
\* longest JSON array the LLM reply renders in SpecDecode
MaxElems == 2
\* largest expected_count handed to the decoder in SpecDecode
MaxExpected == 3
\* longest free-form (possibly malformed) reply text, in tokens
MaxTextLen == 4
\* rows of the news_articles table when the orchestrator runs start
MaxArticles == 3
\* largest batch_size an orchestration run is started with
MaxBatchSize == 2
\* orchestration runs executed one after another
MaxRuns == 2
\* largest self.max_retries a DeepSeekFilter is configured with in SpecRetry
MaxConfiguredRetries == 4
\* largest self.retry_delay, in seconds, in SpecRetry
MaxRetryDelay == 2
MaxUrls == 3               \* distinct article URLs
MaxListLen == 2            \* articles of one email
MaxSaves == 3              \* save_articles calls
MaxDecodes == 3            \* logged decoder calls
MaxRepeatCount == 2        \* expected_count of a logged decoder call
MaxUpdates == 2            \* committed updates of one article
MaxEmails == 2             \* alert emails in the mailbox
MaxMailRuns == 2           \* ingestion runs

(***************************************************************************)
(* JSON values as Python sees them after json.loads.  A value is a record  *)
(* [t, n, s]: t its type, n its number (num, bool), s its text (str: one   *)
(* item) or its items (list).  "missing" stands for a key that is not in   *)
(* the dict.  Scores are integers here: the code only orders them.         *)
(***************************************************************************)
JMissing == [t |-> "missing", n |-> 0, s |-> <<>>]
JNull == [t |-> "null", n |-> 0, s |-> <<>>]
JTrue == [t |-> "bool", n |-> 1, s |-> <<>>]
JFalse == [t |-> "bool", n |-> 0, s |-> <<>>]
JNum(v) == [t |-> "num", n |-> v, s |-> <<>>]
JStr(txt) == [t |-> "str", n |-> 0, s |-> <<txt>>]
JList(items) == [t |-> "list", n |-> 0, s |-> items]
JObj == [t |-> "obj", n |-> 0, s |-> <<>>]

\* The keys of one result object.
required_fields == <<"is_selected", "quality_score", "relevance_score", "reason">>

\* A JSON object with the six keys of a result (JMissing: key not there).
Obj(sel, q, r, reason, kp, cat) ==
    [kind |-> "obj", val |-> JMissing, is_selected |-> sel, quality_score |-> q,
     relevance_score |-> r, reason |-> reason, key_points |-> kp, category |-> cat]

\* An array element that is not a JSON object.
NonObj(j) ==
    [kind |-> j.t, val |-> j, is_selected |-> JMissing, quality_score |-> JMissing,
     relevance_score |-> JMissing, reason |-> JMissing, key_points |-> JMissing,
     category |-> JMissing]

\* Python's None: the absent marker, and also what JSON null parses to.
None == NonObj(JNull)

\* [None] * expected_count
NoneList(n) == [i \in 1..n |-> None]

\* `field in result`
HasKey(e, k) == e[k].t # "missing"

\* isinstance(result, dict)
IsDict(e) == e.kind = "obj"

\* Python truth value of a parsed JSON value.
TruthyJ(j) ==
    CASE j.t = "null" -> FALSE
      [] j.t = "missing" -> FALSE
      [] j.t = "bool" -> j.n = 1
      [] j.t = "num" -> j.n # 0
      [] j.t = "str" -> j.s # <<"">>
      [] j.t = "list" -> j.s # <<>>
      [] OTHER -> TRUE

\* Python truth value of an array element: a dict is true when it has a key.
Truthy(e) ==
    IF IsDict(e)
    THEN {k \in {"is_selected", "quality_score", "relevance_score", "reason",
                 "key_points", "category"} : HasKey(e, k)} # {}
    ELSE TruthyJ(e.val)

\* Texts float() accepts, with their value.
NumericTexts == {"8", "3"}
NumOfText(txt) == IF txt = "8" THEN 8 ELSE 3

\* float(v) raises ValueError / TypeError unless v is a number, a bool or a
\* numeric text.
CanFloat(j) ==
    \/ j.t \in {"num", "bool"}
    \/ j.t = "str" /\ j.s[1] \in NumericTexts

\* float(v)
ToFloat(j) == IF j.t = "str" THEN NumOfText(j.s[1]) ELSE j.n

Min2(a, b) == IF b < a THEN b ELSE a
Max2(a, b) == IF b > a THEN b ELSE a

\* min(10, v): the upper limit alone.
ClampUpperOnly(v) == Min2(10, v)

\* max(1, min(10, v))
Clamp(v) == Max2(1, Min2(10, v))

\* str(v) of a JSON value that is not a list.
PyStr(j) ==
    CASE j.t = "str" -> j.s[1]
      [] j.t = "num" -> ToString(j.n)
      [] j.t = "bool" -> IF j.n = 1 THEN "True" ELSE "False"
      [] j.t = "null" -> "None"
      [] OTHER -> "{}"

\* The default category label ('其他' in the source).
DefaultCategory == "other"

(***************************************************************************)
(* The raw reply text, as a sequence of tokens: "[" "]" "," are the JSON   *)
(* punctuation the decoder searches for, " " is white space, "x" is prose  *)
(* (any text that is not JSON), and "v" is the text of one JSON scalar or  *)
(* object, whose parsed value is e.  A reply of None (no content) is       *)
(* [none |-> TRUE].                                                        *)
(***************************************************************************)
Tok(c) == [c |-> c, e |-> None]
ValTok(e) == [c |-> "v", e |-> e]
Reply(text) == [none |-> FALSE, text |-> text]
NoReply == [none |-> TRUE, text |-> <<>>]

\* str.strip(): drop leading and trailing white space.
RECURSIVE LStrip(_)
LStrip(text) ==
    IF text # <<>> /\ Head(text).c = " " THEN LStrip(Tail(text)) ELSE text
RECURSIVE RStrip(_)
RStrip(text) ==
    IF text # <<>> /\ text[Len(text)].c = " "
    THEN RStrip(SubSeq(text, 1, Len(text) - 1))
    ELSE text
Strip(text) == RStrip(LStrip(text))

\* str.find(c): 0-based index of the first c, -1 when there is none.
Find(text, c) ==
    IF \E i \in 1..Len(text) : text[i].c = c
    THEN (CHOOSE i \in 1..Len(text) :
              text[i].c = c /\ \A j \in 1..(i - 1) : text[j].c # c) - 1
    ELSE -1

\* str.rfind(c): 0-based index of the last c, -1 when there is none.
RFind(text, c) ==
    IF \E i \in 1..Len(text) : text[i].c = c
    THEN (CHOOSE i \in 1..Len(text) :
              text[i].c = c /\ \A j \in (i + 1)..Len(text) : text[j].c # c) - 1
    ELSE -1

\* response[start_idx:end_idx] (0-based, end exclusive)
Slice(text, start_idx, end_idx) == SubSeq(text, start_idx + 1, end_idx)

(***************************************************************************)
(* json.loads on a token text: value := "v" | array,                       *)
(* array := "[" "]" | "[" value ("," value)* "]", white space between      *)
(* tokens, nothing but white space after the value.  Anything else is a    *)
(* JSONDecodeError (ok = FALSE).                                           *)
(***************************************************************************)
RECURSIVE SkipWs(_, _)
SkipWs(ts, i) == IF i <= Len(ts) /\ ts[i].c = " " THEN SkipWs(ts, i + 1) ELSE i

JsonFail == [ok |-> FALSE, next |-> 0, val |-> None, items |-> <<>>]

RECURSIVE ParseValue(_, _)
RECURSIVE ParseItems(_, _, _)

\* The array whose "[" is at i - 1: its items and the index after its "]".
ParseArrayBody(ts, i) ==
    LET j == SkipWs(ts, i)
    IN  IF j > Len(ts) THEN JsonFail
        ELSE IF ts[j].c = "]"
             THEN [ok |-> TRUE, next |-> j + 1, val |-> None, items |-> <<>>]
             ELSE ParseItems(ts, j, <<>>)

\* A nested array is kept as a list element; its items are not looked at.
ListElem(items) == NonObj(JList([k \in 1..Len(items) |-> "item"]))

ParseValue(ts, i) ==
    LET j == SkipWs(ts, i)
    IN  IF j > Len(ts) THEN JsonFail
        ELSE IF ts[j].c = "v"
             THEN [ok |-> TRUE, next |-> j + 1, val |-> ts[j].e, items |-> <<>>]
        ELSE IF ts[j].c = "["
             THEN LET a == ParseArrayBody(ts, j + 1)
                  IN  IF a.ok
                      THEN [ok |-> TRUE, next |-> a.next,
                            val |-> ListElem(a.items), items |-> a.items]
                      ELSE JsonFail
        ELSE JsonFail

ParseItems(ts, i, acc) ==
    LET v == ParseValue(ts, i)
    IN  IF ~v.ok THEN JsonFail
        ELSE LET j == SkipWs(ts, v.next)
             IN  IF j > Len(ts) THEN JsonFail
                 ELSE IF ts[j].c = "]"
                      THEN [ok |-> TRUE, next |-> j + 1, val |-> None,
                            items |-> Append(acc, v.val)]
                 ELSE IF ts[j].c = ","
                      THEN ParseItems(ts, j + 1, Append(acc, v.val))
                 ELSE JsonFail

\* A lenient json.loads that gives the values it can find in a text it cannot
\* parse.
JsonLoadsLenient(ts) ==
    LET v == ParseValue(ts, 1)
        vals == SelectSeq(ts, LAMBDA tk : tk.c = "v")
    IN  IF v.ok /\ SkipWs(ts, v.next) > Len(ts)
        THEN [ok |-> TRUE, isList |-> v.val.kind = "list", items |-> v.items]
        ELSE [ok |-> TRUE, isList |-> TRUE, items |-> [k \in 1..Len(vals) |-> vals[k].e]]

\* json.loads(json_str): [ok, isList, items]
JsonLoads(ts) ==
    LET v == ParseValue(ts, 1)
    IN  IF v.ok /\ SkipWs(ts, v.next) > Len(ts)
        THEN [ok |-> TRUE, isList |-> v.val.kind = "list", items |-> v.items]
        ELSE [ok |-> FALSE, isList |-> FALSE, items |-> <<>>]

(***************************************************************************)
(* _parse_batch_response                                                   *)
(***************************************************************************)
\* Reconcile without the padding of a short array.
ReconcileNoPad(results, expected_count) ==
    IF Len(results) < expected_count
    THEN results
    ELSE SubSeq(results, 1, expected_count)

\* Reconcile with the truncation keeping the tail: results[-expected_count:].
ReconcileKeepsTail(results, expected_count) ==
    IF Len(results) < expected_count
    THEN results \o NoneList(expected_count - Len(results))
    ELSE SubSeq(results, Len(results) - expected_count + 1, Len(results))

\* results.extend([None] * (expected_count - len(results))) or
\* results[:expected_count]
Reconcile(results, expected_count) ==
    IF Len(results) < expected_count
    THEN results \o NoneList(expected_count - Len(results))
    ELSE SubSeq(results, 1, expected_count)

\* The element passes `result and isinstance(result, dict)` and has all of
\* required_fields.
HasRequired(e) ==
    /\ Truthy(e)
    /\ IsDict(e)
    /\ \A k \in 1..Len(required_fields) : HasKey(e, required_fields[k])

\* The exception float(v) raises, "" when it raises none.
FloatError(j) ==
    IF CanFloat(j) THEN ""
    ELSE IF j.t = "str" THEN "ValueError" ELSE "TypeError"

\* CleanError for a loop that reads result['reason'] and the other required
\* keys without testing for them first: a missing key raises KeyError.
CleanErrorUnchecked(e) ==
    IF Truthy(e) /\ IsDict(e) /\ ~HasRequired(e) THEN "KeyError"
    ELSE IF ~HasRequired(e) THEN ""
    ELSE IF FloatError(e.quality_score) # "" THEN FloatError(e.quality_score)
    ELSE FloatError(e.relevance_score)

\* The exception the cleaning of one element raises, "" when it raises none:
\* quality_score is converted first, then relevance_score.
CleanError(e) ==
    IF ~HasRequired(e) THEN ""
    ELSE IF FloatError(e.quality_score) # "" THEN FloatError(e.quality_score)
    ELSE FloatError(e.relevance_score)

\* The body of the cleaning loop for one element that does not raise.
\* CleanOne that leaves key_points and category as the element had them.
CleanOneKeepsKeyPoints(e) ==
    IF HasRequired(e)
    THEN [e EXCEPT
            !.quality_score = JNum(Clamp(ToFloat(e.quality_score))),
            !.relevance_score = JNum(Clamp(ToFloat(e.relevance_score)))]
    ELSE None

CleanOne(e) ==
    IF HasRequired(e)
    THEN [e EXCEPT
            !.quality_score = JNum(Clamp(ToFloat(e.quality_score))),
            !.relevance_score = JNum(Clamp(ToFloat(e.relevance_score))),
            !.key_points = IF ~HasKey(e, "key_points") THEN JList(<<>>)
                           ELSE IF e.key_points.t # "list"
                                THEN JList(<<PyStr(e.key_points)>>)
                                ELSE e.key_points,
            !.category = IF ~HasKey(e, "category") THEN JStr(DefaultCategory)
                         ELSE e.category]
    ELSE None

Returned(results) == [exc |-> "", results |-> results]
Raised(exc) == [exc |-> exc, results |-> <<>>]

\* The cleaning loop: it appends one cleaned entry per element, and the first
\* element whose float() raises ends it with that exception.
CleanAll(results) ==
    LET bad == {k \in 1..Len(results) : CleanError(results[k]) # ""}
    IN  IF bad # {}
        THEN Raised(CleanError(results[CHOOSE k \in bad : \A m \in bad : k <= m]))
        ELSE Returned([k \in 1..Len(results) |-> CleanOne(results[k])])

\* The try block of _parse_batch_response: what it returns, or the exception
\* that leaves it.
ParseBody(resp, n) ==
    IF resp.none
    THEN Raised("AttributeError")          \* None.strip()
    ELSE LET text == Strip(resp.text)
             start_idx == Find(text, "[")
             end_idx == RFind(text, "]") + 1
         IN  IF start_idx # -1 /\ end_idx > start_idx
             THEN LET results == JsonLoads(Slice(text, start_idx, end_idx))
                  IN  IF ~results.ok THEN Raised("JSONDecodeError")
                      ELSE IF ~results.isList THEN Returned(NoneList(n))
                      ELSE CleanAll(Reconcile(results.items, n))
             ELSE Returned(NoneList(n))

\* The except clauses without the final `except Exception`.
ExceptCaughtJsonOnly(exc) == exc = "JSONDecodeError"

\* The except clauses of _parse_batch_response: json.JSONDecodeError, then
\* Exception, which every exception of the try block derives from.
ExceptCaught(exc) == exc = "JSONDecodeError" \/ exc # ""

\* _parse_batch_response(response, expected_count): the list it returns, or
\* raised = TRUE when an exception leaves it.
_parse_batch_response(resp, n) ==
    LET body == ParseBody(resp, n)
    IN  IF body.exc = "" THEN [raised |-> FALSE, results |-> body.results]
        ELSE IF ExceptCaught(body.exc)
             THEN [raised |-> FALSE, results |-> NoneList(n)]
             ELSE [raised |-> TRUE, results |-> <<>>]

(***************************************************************************)
(* State.                                                                  *)
(***************************************************************************)
VARIABLES
    \* --- one call of _parse_batch_response (SpecDecode) ---
    response,           \* the raw reply handed to the decoder
    expected_count,     \* its expected_count argument
    llm_elems,          \* the JSON array the reply renders, when it renders one
    wellformed,         \* TRUE when the reply renders llm_elems
    cleaned_results,    \* the list the decoder returned
    decode_raised,      \* an exception left the decoder
    dpc,                \* "ready" | "returned"
    \* --- the store and one orchestration run (Spec) ---
    articles,           \* news_articles: row id -> columns
    pc,                 \* "idle" | "batch" | "write"
    impl,               \* "deepseek" | "simple" | "chains"
    unfiltered_articles, \* the ids the run fetched, in fetch order
    batch_size,
    batch_start,        \* 0-based, as in range(0, len(articles), batch_size)
    attempt,            \* loop variable of _call_api_with_retry
    batch_prompt,       \* the prompt built for the current batch
    batch_results,      \* what the batch filter returned for the batch
    reply_shape,        \* shape of the reply the current batch got (ReplyShape)
    i,                  \* 1-based position of the zip loop in the batch
    stats,
    runs,               \* runs started so far
    run_limit,          \* the limit argument of the current run
    api_calls,          \* API attempts of the current run
    \* --- history of the run, for the properties ---
    llm_failed,         \* position -> the batch's call or decoding failed
    decoded_present,    \* position -> the batch filter returned a result
    outcome,            \* position -> branch the zip loop took for it
    submissions,        \* batches handed to the batch filter in this run
    writes,             \* row id -> update_article_filter_result successes
    \* --- one call of _call_api_with_retry and its caller (SpecRetry) ---
    self_max_retries,   \* self.max_retries of the DeepSeekFilter instance
    retry_delay,        \* self.retry_delay, in seconds
    attempt_log,        \* outcome of each API attempt so far: "ok" | "error"
    sleeps,             \* the time.sleep() durations so far
    call_ret,           \* what _call_api_with_retry returned
    rpc,                \* "idle" | "loop" | "returned" | "raised" | "done"
    \* --- one start of the program from an entry point (SpecStartup) ---
    entry_point,        \* "main" | "main_simple_langchain" | "main_langchain"
    mode,               \* command line: "full" | "fetch_only" | "filter_only" | ...
    api_key_set,        \* DEEPSEEK_API_KEY is set
    gmail_ok,           \* the Gmail service can be reached
    lib_needs_key,      \* the OpenAI client library refuses api_key=None
    content_filter,     \* GoogleAlertProcessor.content_filter is not None
    emails_fetched,     \* Google Alert emails were fetched
    classify_called,    \* the article filter was called
    exit_cause,         \* why sys.exit(1) was called, "" when it was not
    spc,                \* "off" | "start" | "construct" | "dispatch" | "filter"
                        \* | "finished" | "halted"
    \* --- ingestion into the news_articles table (SpecIngest) ---
    stored_urls,        \* url column of the committed rows, in id order
    last_saved,         \* urls of the rows the last save_articles returned
    ingest_calls,       \* save_articles calls so far
    last_save,          \* [articles, error_at] of the last save_articles call
    \* --- repeated decoder calls (SpecRepeat) ---
    decode_log,         \* the calls so far: [response, expected_count, ret]
    \* --- direct calls of update_article_filter_result (SpecUpdate) ---
    last_call,          \* [article_id, filter_result] of the last call
    update_ret,         \* what the last call returned: "none" | "True" | "False"
    \* --- two orchestration runs at the same time (SpecOverlap) ---
    overlap_runs,       \* run -> [pc, articles, batch_size, batch_start,
                        \*         batch_results, i, submitted, written]
    \* --- ingestion runs: fetch_and_store_emails (SpecMail) ---
    email_rows,         \* message_id column of the google_alert_emails rows
    alert_emails,       \* message ids of the emails the current run fetched
    mail_k,             \* 1-based position of the run's loop in alert_emails
    saved_email,        \* last return of save_alert_email: "" | "None" | "email"
    mail_pc,            \* "idle" | "email" | "articles"
    mail_runs,          \* ingestion runs started so far
    rows_at_start,      \* email_rows when the current run started
    run_error           \* a store error occurred in the current run

decodeVars == <<response, expected_count, llm_elems, wellformed, cleaned_results,
                decode_raised, dpc>>
storeVars == <<articles, writes>>
runVars == <<pc, impl, unfiltered_articles, batch_size, batch_start, attempt,
             batch_prompt, batch_results,
                   reply_shape, i, stats, runs, run_limit, api_calls, llm_failed, decoded_present, outcome,
             submissions>>
retryVars == <<self_max_retries, retry_delay, attempt_log, sleeps, call_ret, rpc>>
startupVars == <<entry_point, mode, api_key_set, gmail_ok, lib_needs_key, content_filter,
                 emails_fetched, classify_called, exit_cause, spc>>
ingestVars == <<stored_urls, last_saved, ingest_calls, last_save>>
repeatVars == <<decode_log>>
updateVars == <<last_call, update_ret>>
overlapVars == <<overlap_runs>>
mailVars == <<email_rows, alert_emails, mail_k, saved_email, mail_pc, mail_runs,
              rows_at_start, run_error>>
otherVars == <<retryVars, startupVars, ingestVars, repeatVars, updateVars, overlapVars, mailVars>>
vars == <<decodeVars, storeVars, runVars, otherVars>>

\* All sequences over S of length at most n.
SeqUpTo(S, n) == UNION {[1..k -> S] : k \in 0..n}

(***************************************************************************)
(* The array elements an LLM reply may hold.                               *)
(***************************************************************************)
ElemOk == Obj(JTrue, JNum(7), JNum(5), JStr("r1"), JList(<<"a">>), JStr("factory"))
ElemClamp == Obj(JFalse, JNum(12), JNum(0), JStr("r2"), JMissing, JMissing)
ElemNullSel == Obj(JNull, JNum(1), JNum(10), JStr("r3"), JStr("a"), JStr("ai"))
ElemCoerce == Obj(JTrue, JStr("8"), JTrue, JNull, JList(<<>>), JNull)
ElemWordScore == Obj(JTrue, JStr("high"), JNum(5), JStr("r5"), JMissing, JMissing)
ElemNullScore == Obj(JFalse, JNum(7), JNull, JStr("r6"), JMissing, JMissing)
ElemListScore == Obj(JTrue, JList(<<"9">>), JNum(5), JStr("r7"), JMissing, JMissing)
ElemObjScore == Obj(JTrue, JNum(7), JObj, JStr("r8"), JMissing, JMissing)
ElemNoSel == Obj(JMissing, JNum(7), JNum(5), JStr("r9"), JMissing, JMissing)
ElemNoQuality == Obj(JTrue, JMissing, JNum(5), JStr("r10"), JMissing, JMissing)
ElemNoRelevance == Obj(JTrue, JNum(7), JMissing, JStr("r11"), JMissing, JMissing)
ElemNoReason == Obj(JTrue, JNum(7), JStr("high"), JMissing, JMissing, JMissing)
ElemEmptyObj == Obj(JMissing, JMissing, JMissing, JMissing, JMissing, JMissing)

ValidElems == {ElemOk, ElemClamp, ElemNullSel, ElemCoerce}
BadScoreElems == {ElemWordScore, ElemNullScore, ElemListScore, ElemObjScore}
MissingKeyElems == {ElemNoSel, ElemNoQuality, ElemNoRelevance, ElemNoReason}
NonObjElems == {None, NonObj(JNum(7)), NonObj(JStr("x")), NonObj(JList(<<>>)),
                ElemEmptyObj}
DecodeElems == ValidElems \cup BadScoreElems \cup MissingKeyElems \cup NonObjElems

\* The reply text of one array element.
RenderElem(e) == IF e.kind = "list" THEN <<Tok("["), Tok("]")>> ELSE <<ValTok(e)>>

RECURSIVE RenderItems(_)
RenderItems(elems) ==
    IF elems = <<>> THEN <<>>
    ELSE IF Len(elems) = 1 THEN RenderElem(elems[1])
    ELSE RenderElem(elems[1]) \o <<Tok(",")>> \o RenderItems(Tail(elems))

\* A reply that introduces the array with prose ("Sure! [...]").
Render(elems) ==
    Reply(<<Tok("x"), Tok(" "), Tok("[")>> \o RenderItems(elems)
          \o <<Tok("]"), Tok(" ")>>)

\* Free-form reply texts: every token text up to MaxTextLen.
TextAlphabet == {Tok("["), Tok("]"), Tok(","), Tok("x"), Tok(" "),
                 ValTok(ElemOk), ValTok(None)}
FreeTexts == SeqUpTo(TextAlphabet, MaxTextLen)

DecodeInputs ==
    {[wellformed |-> TRUE, elems |-> a, response |-> Render(a)] :
        a \in SeqUpTo(DecodeElems, MaxElems)}
    \cup {[wellformed |-> FALSE, elems |-> <<>>, response |-> Reply(t)] :
            t \in FreeTexts}
    \cup {[wellformed |-> FALSE, elems |-> <<>>, response |-> NoReply]}

(***************************************************************************)
(* The store: DatabaseManager over news_articles.                          *)
(***************************************************************************)
\* A row as save_articles creates it: every filter column NULL.
NewRow ==
    [is_selected |-> JNull, quality_score |-> JNull, relevance_score |-> JNull,
     filter_reason |-> JNull, key_points |-> JNull, category |-> JNull,
     filtered_at |-> FALSE]

\* dict.get(key) and dict.get(key, default)
Get(e, k) == IF HasKey(e, k) THEN e[k] ELSE JNull
GetOr(e, k, default) == IF HasKey(e, k) THEN e[k] ELSE default

\* json.dumps(key_points, ensure_ascii=False): the list as a JSON text.
JsonDumps(j) == [t |-> "json", n |-> 0, s |-> j.s]

\* The row update_article_filter_result commits.
UpdatedRow(row, filter_result) ==
    LET key_points == GetOr(filter_result, "key_points", JList(<<>>))
    IN  [row EXCEPT
            !.is_selected = Get(filter_result, "is_selected"),
            !.quality_score = Get(filter_result, "quality_score"),
            !.relevance_score = Get(filter_result, "relevance_score"),
            !.filter_reason = GetOr(filter_result, "reason", JStr("")),
            !.category = GetOr(filter_result, "category", JStr("")),
            !.filtered_at = TRUE,
            !.key_points = IF TruthyJ(key_points) THEN JsonDumps(key_points)
                           ELSE row.key_points]

RECURSIVE DescIds(_)
DescIds(S) ==
    IF S = {} THEN <<>>
    ELSE LET m == CHOOSE x \in S : \A y \in S : y <= x
         IN  <<m>> \o DescIds(S \ {m})

\* limit=None
NoLimit == -1

\* get_unfiltered_articles that applies the limit to every row of the table
\* and not to the unfiltered ones only.
get_unfiltered_articles_any(limit) ==
    LET all == DescIds(DOMAIN articles)
    IN  IF limit = NoLimit \/ limit >= Len(all) THEN all ELSE SubSeq(all, 1, limit)

\* get_unfiltered_articles(limit): rows with is_selected IS NULL, newest first.
get_unfiltered_articles(limit) ==
    LET all == DescIds({id \in DOMAIN articles : articles[id].is_selected.t = "null"})
    IN  IF limit = NoLimit \/ limit >= Len(all) THEN all ELSE SubSeq(all, 1, limit)

(***************************************************************************)
(* SpecDecode: one call of _parse_batch_response on every reply of         *)
(* DecodeInputs with every expected_count up to MaxExpected.               *)
(***************************************************************************)
ZeroStats(total) ==
    [total |-> total, processed |-> 0, selected |-> 0, rejected |-> 0, failed |-> 0]

InitRunVars ==
    /\ pc = "idle"
    /\ impl = "deepseek"
    /\ unfiltered_articles = <<>>
    /\ batch_size = 1
    /\ batch_start = 0
    /\ attempt = 0
    /\ batch_prompt = <<>>
    /\ batch_results = <<>>
    /\ reply_shape = ""
    /\ i = 1
    /\ stats = ZeroStats(0)
    /\ runs = 0
    /\ run_limit = NoLimit
    /\ api_calls = 0
    /\ llm_failed = <<>>
    /\ decoded_present = <<>>
    /\ outcome = <<>>
    /\ submissions = 0

\* self.max_retries of DeepSeekFilter
max_retries == 3

\* DeepSeekFilter.__init__ and no call of _call_api_with_retry under way.
InitRetryVars ==
    /\ self_max_retries = max_retries
    /\ retry_delay = 1
    /\ attempt_log = <<>>
    /\ sleeps = <<>>
    /\ call_ret = NoReply
    /\ rpc = "idle"

\* No program start under way.
InitStartupVars ==
    /\ entry_point = "main"
    /\ mode = "full"
    /\ api_key_set = TRUE
    /\ gmail_ok = TRUE
    /\ lib_needs_key = TRUE
    /\ content_filter = FALSE
    /\ emails_fetched = FALSE
    /\ classify_called = FALSE
    /\ exit_cause = ""
    /\ spc = "off"

\* An empty news_articles table, save_articles not called yet.
InitIngestVars ==
    /\ stored_urls = <<>>
    /\ last_saved = <<>>
    /\ ingest_calls = 0
    /\ last_save = [articles |-> <<>>, error_at |-> 0]

\* No decoder call logged.
InitRepeatVars == decode_log = <<>>

\* update_article_filter_result not called yet.
InitUpdateVars ==
    /\ last_call = <<>>
    /\ update_ret = "none"

\* The two processes that run the orchestrator: the daily script and a
\* manual command line run.
Runs == {"daily", "manual"}

\* A process that has not called filter_unprocessed_articles yet.
IdleRun ==
    [pc |-> "idle", articles |-> <<>>, batch_size |-> 1, batch_start |-> 0,
     batch_results |-> <<>>, i |-> 1, submitted |-> {}, written |-> {}]

InitOverlapVars == overlap_runs = [r \in Runs |-> IdleRun]

\* An empty google_alert_emails table, no ingestion run yet.
InitMailVars ==
    /\ email_rows = <<>>
    /\ alert_emails = <<>>
    /\ mail_k = 1
    /\ saved_email = ""
    /\ mail_pc = "idle"
    /\ mail_runs = 0
    /\ rows_at_start = <<>>
    /\ run_error = FALSE

InitOtherVars ==
    /\ InitRetryVars
    /\ InitStartupVars
    /\ InitIngestVars
    /\ InitRepeatVars
    /\ InitUpdateVars
    /\ InitOverlapVars
    /\ InitMailVars

InitDecodeVars ==
    /\ response = NoReply
    /\ expected_count = 0
    /\ llm_elems = <<>>
    /\ wellformed = FALSE
    /\ cleaned_results = <<>>
    /\ decode_raised = FALSE
    /\ dpc = "ready"

InitDecode ==
    /\ \E din \in DecodeInputs :
          /\ response = din.response
          /\ llm_elems = din.elems
          /\ wellformed = din.wellformed
    /\ expected_count \in 0..MaxExpected
    /\ cleaned_results = <<>>
    /\ decode_raised = FALSE
    /\ dpc = "ready"
    /\ articles = <<>>
    /\ writes = <<>>
    /\ InitRunVars
    /\ InitOtherVars

Decode ==
    /\ dpc = "ready"
    /\ LET ret == _parse_batch_response(response, expected_count)
       IN  /\ cleaned_results' = ret.results
           /\ decode_raised' = ret.raised
    /\ dpc' = "returned"
    /\ UNCHANGED <<response, expected_count, llm_elems, wellformed>>
    /\ UNCHANGED <<storeVars, runVars, otherVars>>

NextDecode == Decode

SpecDecode == InitDecode /\ [][NextDecode]_vars

(***************************************************************************)
(* Spec: orchestration runs, one after another, over the store.            *)
(***************************************************************************)
Impls == {"deepseek", "simple", "chains"}

\* What the LLM answers for a batch in Spec.
OrchElems == {ElemOk, ElemClamp, ElemNullSel, None}
GarbageReplies == {Reply(<<Tok("x"), Tok("x")>>), Reply(<<Tok("["), ValTok(ElemOk)>>),
                   Reply(<<Tok(" ")>>), NoReply,
                   Reply(<<Tok("]"), ValTok(ElemOk), Tok("[")>>),
                   Reply(<<Tok("["), ValTok(ElemOk), Tok("x"), Tok("]")>>)}

\* The shape of a reply, by the first "[" and the last "]" of its text.
ReplyShape(reply) ==
    IF reply.none THEN "no_reply"
    ELSE LET text == Strip(reply.text)
         IN  IF Find(text, "[") = -1 THEN "no_open"
             ELSE IF RFind(text, "]") = -1 THEN "no_close"
             ELSE IF RFind(text, "]") < Find(text, "[") THEN "close_before_open"
             ELSE LET json_str == Slice(text, Find(text, "["), RFind(text, "]") + 1)
                  IN  IF \E k \in 1..Len(json_str) : json_str[k].c = "x"
                      THEN "unparseable"          \* prose inside the brackets
                      ELSE IF ~JsonLoads(json_str).ok THEN "unparseable"
                      ELSE "array"

OrchInputsFor(n) ==
    {[wellformed |-> TRUE, elems |-> a, response |-> Render(a)] :
        a \in SeqUpTo(OrchElems, n + 1)}
    \cup {[wellformed |-> FALSE, elems |-> <<>>, response |-> g] : g \in GarbageReplies}
OrchInputsTable == [n \in 0..MaxBatchSize |-> OrchInputsFor(n)]
OrchInputs(n) == OrchInputsTable[n]

\* _build_batch_prompt(articles): the articles' texts under the headings
\* "文章 1:", "文章 2:", ... in list order (enumerate(articles, 1)).
_build_batch_prompt(arts) ==
    [k \in 1..Len(arts) |-> [number |-> k, article |-> arts[k]]]

\* articles[batch_start:min(batch_start + batch_size, len(articles))]
BatchSlice(arts, start, size) ==
    SubSeq(arts, start + 1, Min2(start + size, Len(arts)))

Init ==
    /\ \E n \in 1..MaxArticles : articles = [id \in 1..n |-> NewRow]
    /\ writes = [id \in DOMAIN articles |-> 0]
    /\ InitRunVars
    /\ InitDecodeVars
    /\ InitOtherVars

\* batch_end with the last index of the list as its limit:
\* min(batch_start + batch_size, len(articles) - 1).
batch_end_short ==
    Max2(batch_start, Min2(batch_start + batch_size, Len(unfiltered_articles) - 1))

\* batch_end = min(batch_start + batch_size, len(articles))
batch_end == Min2(batch_start + batch_size, Len(unfiltered_articles))

\* batch_articles sliced from the head of the list whatever batch_start is:
\* articles[:batch_end - batch_start].
batch_articles_head == SubSeq(unfiltered_articles, 1, batch_end - batch_start)

\* batch_articles = articles[batch_start:batch_end]
batch_articles == SubSeq(unfiltered_articles, batch_start + 1, batch_end)

\* Number of pairs zip(batch_articles, batch_results) yields.
ZipLen == Min2(Len(batch_articles), Len(batch_results))

\* Position in unfiltered_articles of the zip loop's current article.
Pos == batch_start + i

\* The run fetches and, when something was fetched, enters the batch loop.
StartRun(im, limit, bs) ==
    /\ pc = "idle"
    /\ runs < MaxRuns
    /\ LET fetched == get_unfiltered_articles(limit)
       IN  /\ fetched # <<>>
           /\ unfiltered_articles' = fetched
           /\ stats' = ZeroStats(Len(fetched))
           /\ llm_failed' = [p \in 1..Len(fetched) |-> FALSE]
           /\ decoded_present' = [p \in 1..Len(fetched) |-> FALSE]
           /\ outcome' = [p \in 1..Len(fetched) |-> "pending"]
    /\ impl' = im
    /\ batch_size' = bs
    /\ batch_start' = 0
    /\ attempt' = 0
    /\ batch_prompt' = _build_batch_prompt(
                          BatchSlice(get_unfiltered_articles(limit), 0, bs))
    /\ batch_results' = <<>>
    /\ reply_shape' = ""
    /\ i' = 1
    /\ submissions' = 0
    /\ runs' = runs + 1
    /\ run_limit' = limit
    /\ api_calls' = 0
    /\ pc' = "batch"
    /\ UNCHANGED <<decodeVars, storeVars, otherVars>>

\* Nothing to filter: the run returns all-zero statistics at once.
StartRunEmpty(im, limit) ==
    /\ pc = "idle"
    /\ runs < MaxRuns
    /\ get_unfiltered_articles(limit) = <<>>
    /\ impl' = im
    /\ unfiltered_articles' = <<>>
    /\ stats' = ZeroStats(0)
    /\ llm_failed' = <<>>
    /\ decoded_present' = <<>>
    /\ outcome' = <<>>
    /\ submissions' = 0
    /\ runs' = runs + 1
    /\ run_limit' = limit
    /\ api_calls' = 0
    /\ UNCHANGED <<pc, batch_size, batch_start, attempt, batch_prompt, batch_results,
                   reply_shape,
                   i>>
    /\ UNCHANGED <<decodeVars, storeVars, otherVars>>

\* The batch filter returned `results` for the current batch: the zip loop
\* starts.  failed: the call or the decoding of the batch failed.
EnterZipLoop(results, failed) ==
    /\ batch_results' = results
    /\ i' = 1
    /\ pc' = "write"
    /\ attempt' = 0
    /\ submissions' = submissions + 1
    /\ api_calls' = api_calls + 1          \* the attempt that ended the call
    /\ llm_failed' = [p \in DOMAIN llm_failed |->
                        IF p > batch_start /\ p <= batch_end THEN failed
                        ELSE llm_failed[p]]
    /\ decoded_present' = [p \in DOMAIN decoded_present |->
                        IF p > batch_start /\ p <= batch_end
                        THEN /\ p - batch_start <= Len(results)
                             /\ Truthy(results[p - batch_start])
                        ELSE decoded_present[p]]
    /\ UNCHANGED <<impl, unfiltered_articles, batch_size, batch_start, batch_prompt,
                   stats, runs, run_limit, outcome>>
    /\ UNCHANGED <<decodeVars, storeVars, otherVars>>

\* ApiCallFails of a retry loop that makes one attempt more than max_retries.
ApiCallFailsOnceMore ==
    /\ pc = "batch"
    /\ IF impl = "deepseek" /\ attempt < max_retries
       THEN /\ attempt' = attempt + 1
            /\ api_calls' = api_calls + 1
            /\ UNCHANGED <<pc, impl, unfiltered_articles, batch_size, batch_start,
                           batch_prompt, batch_results,
                           reply_shape, i, stats, runs, run_limit, llm_failed,
                           decoded_present, outcome, submissions>>
            /\ UNCHANGED <<decodeVars, storeVars, otherVars>>
       ELSE /\ EnterZipLoop(NoneList(Len(batch_articles)), TRUE)
            /\ reply_shape' = "call_failed"

\* One API attempt raises.  DeepSeekFilter retries up to max_retries times and
\* then returns None; the Langchain variants catch it and return [None] * n.
ApiCallFails ==
    /\ pc = "batch"
    /\ IF impl = "deepseek" /\ attempt < max_retries - 1
       THEN /\ attempt' = attempt + 1
            /\ api_calls' = api_calls + 1
            /\ UNCHANGED <<pc, impl, unfiltered_articles, batch_size, batch_start,
                           batch_prompt, batch_results,
                           reply_shape, i, stats, runs, run_limit, llm_failed,
                           decoded_present, outcome, submissions>>
            /\ UNCHANGED <<decodeVars, storeVars, otherVars>>
       ELSE /\ EnterZipLoop(NoneList(Len(batch_articles)), TRUE)
            /\ reply_shape' = "call_failed"

\* _batch_filter_articles_api, _filter_batch_articles, _batch_filter_articles
\* once the API call returned: DeepSeekFilter gives up on an empty reply, all
\* three hand the reply to the decoder inside `try ... except Exception`.
BatchFilter(reply, n) ==
    IF impl = "deepseek" /\ Strip(reply.text) = <<>>
    THEN NoneList(n)                     \* if not response
    ELSE LET ret == _parse_batch_response(reply, n)
         IN  IF ret.raised THEN NoneList(n) ELSE ret.results

\* The API call returns a reply and the batch filter decodes it.
ApiCallReturns(input) ==
    /\ pc = "batch"
    /\ impl \in {"deepseek", "chains"} => ~input.response.none
    /\ EnterZipLoop(BatchFilter(input.response, Len(batch_articles)),
                    ~input.wellformed)
    /\ reply_shape' = ReplyShape(input.response)

Bump(st, field) == [st EXCEPT ![field] = @ + 1]

SetOutcome(what) ==
    outcome' = [outcome EXCEPT ![Pos] = what]

\* Body of the zip loop, result present, update_article_filter_result
\* commits and returns True.
WriteBackOk ==
    /\ pc = "write"
    /\ i <= ZipLen
    /\ Truthy(batch_results[i])
    /\ LET article_id == batch_articles[i]
           result == batch_results[i]
       IN  /\ article_id \in DOMAIN articles
           /\ articles' = [articles EXCEPT
                              ![article_id] = UpdatedRow(articles[article_id], result)]
           /\ writes' = [writes EXCEPT ![article_id] = @ + 1]
           /\ IF TruthyJ(Get(result, "is_selected"))
              THEN /\ stats' = Bump(Bump(stats, "processed"), "selected")
                   /\ SetOutcome("selected")
              ELSE /\ stats' = Bump(Bump(stats, "processed"), "rejected")
                   /\ SetOutcome("rejected")
    /\ i' = i + 1
    /\ UNCHANGED <<pc, impl, unfiltered_articles, batch_size, batch_start, attempt,
                   batch_prompt, batch_results,
                   reply_shape, runs, run_limit, api_calls, llm_failed, decoded_present, submissions>>
    /\ UNCHANGED <<decodeVars, otherVars>>

\* WriteBackFails with a `break` after the failed update.
WriteBackFailsBreaks ==
    /\ pc = "write"
    /\ i <= ZipLen
    /\ Truthy(batch_results[i])
    /\ stats' = Bump(stats, "failed")
    /\ SetOutcome("write_failed")
    /\ i' = ZipLen + 1
    /\ UNCHANGED <<pc, impl, unfiltered_articles, batch_size, batch_start, attempt,
                   batch_prompt, batch_results,
                   reply_shape, runs, run_limit, api_calls, llm_failed, decoded_present, submissions>>
    /\ UNCHANGED <<decodeVars, storeVars, otherVars>>

\* Body of the zip loop, result present, update_article_filter_result hits a
\* SQLAlchemyError, rolls back and returns False.
WriteBackFails ==
    /\ pc = "write"
    /\ i <= ZipLen
    /\ Truthy(batch_results[i])
    /\ stats' = Bump(stats, "failed")
    /\ SetOutcome("write_failed")
    /\ i' = i + 1
    /\ UNCHANGED <<pc, impl, unfiltered_articles, batch_size, batch_start, attempt,
                   batch_prompt, batch_results,
                   reply_shape, runs, run_limit, api_calls, llm_failed, decoded_present, submissions>>
    /\ UNCHANGED <<decodeVars, storeVars, otherVars>>

\* Body of the zip loop, result absent.
SkipAbsent ==
    /\ pc = "write"
    /\ i <= ZipLen
    /\ ~Truthy(batch_results[i])
    /\ stats' = Bump(stats, "failed")
    /\ SetOutcome("decode_failed")
    /\ i' = i + 1
    /\ UNCHANGED <<pc, impl, unfiltered_articles, batch_size, batch_start, attempt,
                   batch_prompt, batch_results,
                   reply_shape, runs, run_limit, api_calls, llm_failed, decoded_present, submissions>>
    /\ UNCHANGED <<decodeVars, storeVars, otherVars>>

\* EndBatch for a run that returns as soon as a batch gave no result at all.
EndBatchStopsAfterFailure ==
    /\ pc = "write"
    /\ i > ZipLen
    /\ IF /\ batch_start + batch_size < Len(unfiltered_articles)
          /\ \E k \in 1..Len(batch_results) : batch_results[k] # None
       THEN /\ batch_start' = batch_start + batch_size
            /\ batch_prompt' = _build_batch_prompt(
                    BatchSlice(unfiltered_articles, batch_start + batch_size,
                               batch_size))
            /\ pc' = "batch"
       ELSE /\ pc' = "idle"
            /\ UNCHANGED <<batch_start, batch_prompt>>
    /\ UNCHANGED <<impl, unfiltered_articles, batch_size, attempt, batch_results,
                   reply_shape, i,
                   stats, runs, run_limit, api_calls, llm_failed, decoded_present, outcome, submissions>>
    /\ UNCHANGED <<decodeVars, storeVars, otherVars>>

\* EndBatch that can leave the zip loop before its last pair was handled.
EndBatchBeforeLastPair ==
    /\ pc = "write"
    /\ i >= ZipLen
    /\ IF batch_start + batch_size < Len(unfiltered_articles)
       THEN /\ batch_start' = batch_start + batch_size
            /\ batch_prompt' = _build_batch_prompt(
                    BatchSlice(unfiltered_articles, batch_start + batch_size,
                               batch_size))
            /\ pc' = "batch"
       ELSE /\ pc' = "idle"
            /\ UNCHANGED <<batch_start, batch_prompt>>
    /\ UNCHANGED <<impl, unfiltered_articles, batch_size, attempt, batch_results,
                   reply_shape, i,
                   stats, runs, run_limit, api_calls, llm_failed, decoded_present, outcome, submissions>>
    /\ UNCHANGED <<decodeVars, storeVars, otherVars>>

\* The zip loop is exhausted: next batch, or the run returns stats.
EndBatch ==
    /\ pc = "write"
    /\ i > ZipLen
    /\ IF batch_start + batch_size < Len(unfiltered_articles)
       THEN /\ batch_start' = batch_start + batch_size
            /\ batch_prompt' = _build_batch_prompt(
                    BatchSlice(unfiltered_articles, batch_start + batch_size,
                               batch_size))
            /\ pc' = "batch"
       ELSE /\ pc' = "idle"
            /\ UNCHANGED <<batch_start, batch_prompt>>
    /\ UNCHANGED <<impl, unfiltered_articles, batch_size, attempt, batch_results,
                   reply_shape, i,
                   stats, runs, run_limit, api_calls, llm_failed, decoded_present, outcome, submissions>>
    /\ UNCHANGED <<decodeVars, storeVars, otherVars>>

Limits == {NoLimit} \cup 0..MaxArticles

Next ==
    \/ \E im \in Impls, limit \in Limits, bs \in 1..MaxBatchSize : StartRun(im, limit, bs)
    \/ \E im \in Impls, limit \in Limits : StartRunEmpty(im, limit)
    \/ ApiCallFails
    \/ \E input \in OrchInputs(Len(batch_articles)) : ApiCallReturns(input)
    \/ WriteBackOk
    \/ WriteBackFails
    \/ SkipAbsent
    \/ EndBatch

Spec == Init /\ [][Next]_vars

\* The state in which batch_filter_articles_optimized is entered for the one
\* run whose API calls are counted: an earlier run fetched nothing (limit 0),
\* every stored article is still unfiltered.
InitCalls ==
    /\ \E n \in 1..MaxArticles : articles = [id \in 1..n |-> NewRow]
    /\ writes = [id \in DOMAIN articles |-> 0]
    /\ pc = "idle"
    /\ \E im \in Impls : impl = im
    /\ unfiltered_articles = <<>>
    /\ batch_size = 1
    /\ batch_start = 0
    /\ attempt = 0
    /\ batch_prompt = <<>>
    /\ batch_results = <<>>
    /\ reply_shape = ""
    /\ i = 1
    /\ stats = ZeroStats(0)
    /\ runs = MaxRuns - 1
    /\ run_limit = 0
    /\ api_calls = 0
    /\ llm_failed = <<>>
    /\ decoded_present = <<>>
    /\ outcome = <<>>
    /\ submissions = 0
    /\ InitDecodeVars
    /\ InitOtherVars

\* The run as a sequential program: the `for` loops of
\* batch_filter_articles_optimized and _call_api_with_retry run without
\* threads, every API call returns or raises, so a step that is enabled is
\* eventually taken.
SpecTerm == InitCalls /\ [][Next]_vars /\ WF_vars(Next)

(***************************************************************************)
(* SpecRetry: one call of DeepSeekFilter._batch_filter_articles_api, with  *)
(* the attempts of _call_api_with_retry as steps, for every configured     *)
(* max_retries and retry_delay.                                            *)
(***************************************************************************)
\* The run variables a call of _batch_filter_articles_api leaves alone.
runVarsOutsideCall ==
    <<pc, impl, unfiltered_articles, batch_size, batch_start, batch_prompt,
      reply_shape, i, stats, runs, run_limit, api_calls, llm_failed, decoded_present, outcome, submissions>>

\* Every variable the retry loop and its caller leave alone.
notRetryVars == <<decodeVars, storeVars, runVarsOutsideCall, startupVars, ingestVars, repeatVars, updateVars, overlapVars, mailVars>>

\* message.content of an attempt that returns content.
RetryReplies == {Render(<<ElemOk>>), Reply(<<Tok("x")>>), Reply(<<Tok(" ")>>)}

InitRetry ==
    /\ self_max_retries \in 0..MaxConfiguredRetries
    /\ retry_delay \in 1..MaxRetryDelay
    /\ attempt_log = <<>>
    /\ sleeps = <<>>
    /\ call_ret = NoReply
    /\ rpc = "loop"
    /\ expected_count \in 1..MaxBatchSize
    /\ response = NoReply
    /\ llm_elems = <<>>
    /\ wellformed = FALSE
    /\ cleaned_results = <<>>
    /\ decode_raised = FALSE
    /\ dpc = "ready"
    /\ articles = <<>>
    /\ writes = <<>>
    /\ InitRunVars
    /\ InitStartupVars
    /\ InitIngestVars
    /\ InitRepeatVars
    /\ InitUpdateVars
    /\ InitOverlapVars
    /\ InitMailVars

\* AttemptFails whose last failure leaves _call_api_with_retry as an exception.
AttemptFailsRaisesAtLast ==
    /\ rpc = "loop"
    /\ attempt < self_max_retries
    /\ attempt_log' = Append(attempt_log, "error")
    /\ IF attempt < self_max_retries - 1
       THEN /\ sleeps' = Append(sleeps, retry_delay * (attempt + 1))
            /\ rpc' = rpc
       ELSE /\ sleeps' = sleeps
            /\ rpc' = "raised"
    /\ attempt' = attempt + 1
    /\ UNCHANGED <<self_max_retries, retry_delay, call_ret, batch_results>>
    /\ UNCHANGED notRetryVars

\* One attempt of the for loop fails: create() raises, or the message has no
\* content and content.strip() raises.  `except Exception` sleeps
\* retry_delay * (attempt + 1) unless this was the last attempt.
AttemptFails ==
    /\ rpc = "loop"
    /\ attempt < self_max_retries
    /\ attempt_log' = Append(attempt_log, "error")
    /\ IF attempt < self_max_retries - 1
       THEN sleeps' = Append(sleeps, retry_delay * (attempt + 1))
       ELSE sleeps' = sleeps
    /\ attempt' = attempt + 1
    /\ UNCHANGED <<self_max_retries, retry_delay, call_ret, rpc, batch_results>>
    /\ UNCHANGED notRetryVars

\* One attempt succeeds: return response.choices[0].message.content.strip()
AttemptReturns(reply) ==
    /\ rpc = "loop"
    /\ attempt < self_max_retries
    /\ attempt_log' = Append(attempt_log, "ok")
    /\ call_ret' = Reply(Strip(reply.text))
    /\ rpc' = "returned"
    /\ UNCHANGED <<self_max_retries, retry_delay, sleeps, attempt, batch_results>>
    /\ UNCHANGED notRetryVars

\* The for loop is over without a return: return None
RetriesExhausted ==
    /\ rpc = "loop"
    /\ attempt >= self_max_retries
    /\ call_ret' = NoReply
    /\ rpc' = "returned"
    /\ UNCHANGED <<self_max_retries, retry_delay, attempt_log, sleeps, attempt,
                   batch_results>>
    /\ UNCHANGED notRetryVars

\* _batch_filter_articles_api with the value _call_api_with_retry returned:
\* [None] * len(articles) when there is no response, the decoded list otherwise.
CallerHandlesReturn ==
    /\ rpc = "returned"
    /\ batch_results' = BatchFilter(call_ret, expected_count)
    /\ rpc' = "done"
    /\ UNCHANGED <<self_max_retries, retry_delay, attempt_log, sleeps, call_ret,
                   attempt>>
    /\ UNCHANGED notRetryVars

NextRetry ==
    \/ AttemptFails
    \/ \E reply \in RetryReplies : AttemptReturns(reply)
    \/ RetriesExhausted
    \/ CallerHandlesReturn

SpecRetry == InitRetry /\ [][NextRetry]_vars

(***************************************************************************)
(* SpecStartup: one start of the program from main.py (also the processor  *)
(* of daily_news.py), main_simple_langchain.py or main_langchain.py, up to *)
(* the end of the workflow or sys.exit(1).                                 *)
(***************************************************************************)
EntryPoints == {"main", "main_simple_langchain", "main_langchain"}
Modes == {"full", "fetch_only", "filter_only", "report_only", "stats"}

\* DeepSeekFilter.__init__(api_key): raises ValueError when the key is missing.
DeepSeekFilter_init(key_set) == IF key_set THEN "ok" ELSE "ValueError"

InitStartup ==
    /\ entry_point \in EntryPoints
    /\ mode \in Modes
    /\ api_key_set \in BOOLEAN
    /\ gmail_ok \in BOOLEAN
    /\ lib_needs_key \in BOOLEAN
    /\ content_filter = FALSE
    /\ emails_fetched = FALSE
    /\ classify_called = FALSE
    /\ exit_cause = ""
    /\ spc = "start"
    /\ articles = <<>>
    /\ writes = <<>>
    /\ InitRunVars
    /\ InitDecodeVars
    /\ InitRetryVars
    /\ InitIngestVars
    /\ InitRepeatVars
    /\ InitUpdateVars
    /\ InitOverlapVars
    /\ InitMailVars

\* Every variable but those of the program start.
notStartupVars == <<decodeVars, storeVars, runVars, retryVars, ingestVars, repeatVars, updateVars, overlapVars, mailVars>>

Halt(cause) ==
    /\ spc' = "halted"
    /\ exit_cause' = cause

\* GoogleAlertProcessor._initialize_components: EmailFetcher(), then
\* DeepSeekFilter() only `if DEEPSEEK_API_KEY`, else a warning; any exception
\* ends in sys.exit(1).
InitializeComponents ==
    /\ spc = "start"
    /\ entry_point = "main"
    /\ IF ~gmail_ok
       THEN /\ Halt("gmail")
            /\ UNCHANGED content_filter
       ELSE IF api_key_set /\ DeepSeekFilter_init(api_key_set) # "ok"
            THEN /\ Halt("filter_init")
                 /\ UNCHANGED content_filter
            ELSE /\ content_filter' = api_key_set
                 /\ spc' = "dispatch"
                 /\ UNCHANGED exit_cause
    /\ UNCHANGED <<entry_point, mode, api_key_set, gmail_ok, lib_needs_key,
                   emails_fetched, classify_called>>
    /\ UNCHANGED notStartupVars

\* main_simple_langchain.main: without the key, sys.exit(1) unless --stats,
\* --fetch-only or --export-excel was given.
CheckApiKey ==
    /\ spc = "start"
    /\ entry_point = "main_simple_langchain"
    /\ IF ~api_key_set /\ mode \notin {"stats", "fetch_only"}
       THEN Halt("missing_key")
       ELSE /\ spc' = "construct"
            /\ UNCHANGED exit_cause
    /\ UNCHANGED <<entry_point, mode, api_key_set, gmail_ok, lib_needs_key,
                   content_filter, emails_fetched, classify_called>>
    /\ UNCHANGED notStartupVars

\* The LLM client is constructed with api_key=DEEPSEEK_API_KEY:
\* LangchainProcessor() in main_simple_langchain.main, and
\* NewsProcessingWorkflow() in LangchainGoogleAlertProcessor (which only warns
\* about a missing key before).  Both constructors also build EmailFetcher(),
\* the first after the client and the second before it.  An exception ends in
\* sys.exit(1).
ConstructClient ==
    /\ \/ spc = "construct" /\ entry_point = "main_simple_langchain"
       \/ spc = "start" /\ entry_point = "main_langchain"
    /\ LET client_fails == ~api_key_set /\ lib_needs_key
           first == IF entry_point = "main_langchain" THEN "gmail" ELSE "client_init"
       IN IF client_fails /\ ~gmail_ok THEN Halt(first)
          ELSE IF client_fails THEN Halt("client_init")
          ELSE IF ~gmail_ok THEN Halt("gmail")
          ELSE /\ spc' = "dispatch"
               /\ UNCHANGED exit_cause
    /\ UNCHANGED <<entry_point, mode, api_key_set, gmail_ok, lib_needs_key,
                   content_filter, emails_fetched, classify_called>>
    /\ UNCHANGED notStartupVars

\* Step 1 of the workflow, or --fetch-only: the emails are fetched and stored.
FetchEmails ==
    /\ spc = "dispatch"
    /\ mode \in {"full", "fetch_only"}
    /\ emails_fetched' = gmail_ok
    /\ spc' = IF mode = "full" THEN "filter" ELSE "finished"
    /\ UNCHANGED <<entry_point, mode, api_key_set, gmail_ok, lib_needs_key,
                   content_filter, classify_called, exit_cause>>
    /\ UNCHANGED notStartupVars

\* Step 2 of the workflow, or --filter-only.  GoogleAlertProcessor skips it
\* when content_filter is None.
FilterArticles ==
    /\ \/ spc = "filter"
       \/ spc = "dispatch" /\ mode = "filter_only"
    /\ classify_called' = (entry_point = "main" => content_filter)
    /\ spc' = "finished"
    /\ UNCHANGED <<entry_point, mode, api_key_set, gmail_ok, lib_needs_key,
                   content_filter, emails_fetched, exit_cause>>
    /\ UNCHANGED notStartupVars

\* --report-only and --stats read the store and end.
ReadOnlyMode ==
    /\ spc = "dispatch"
    /\ mode \in {"report_only", "stats"}
    /\ spc' = "finished"
    /\ UNCHANGED <<entry_point, mode, api_key_set, gmail_ok, lib_needs_key,
                   content_filter, emails_fetched, classify_called, exit_cause>>
    /\ UNCHANGED notStartupVars

NextStartup ==
    \/ InitializeComponents
    \/ CheckApiKey
    \/ ConstructClient
    \/ FetchEmails
    \/ FilterArticles
    \/ ReadOnlyMode

SpecStartup == InitStartup /\ [][NextStartup]_vars

(***************************************************************************)
(* SpecIngest: DatabaseManager.save_articles called with the articles of   *)
(* one email after another.  An article is its url.                        *)
(***************************************************************************)
Urls == 1..MaxUrls

RECURSIVE ListsOfLen(_)
ListsOfLen(n) ==
    IF n = 0 THEN {<<>>}
    ELSE {Append(l, u) : l \in ListsOfLen(n - 1), u \in Urls}

\* The article lists of an email.
ArticleLists == UNION {ListsOfLen(n) : n \in 0..MaxListLen}

\* session.query(NewsArticle).filter_by(url=url).first(): the session is made
\* with autoflush=False, so the query sees the committed rows only, not the
\* objects this call has add()ed.
QueryByUrl(committed, url) == \E k \in 1..Len(committed) : committed[k] = url

\* The for loop of save_articles from article k on; pending: the rows added
\* to the session so far (saved_articles).
RECURSIVE SaveLoop(_, _, _, _)
SaveLoop(committed, pending, list, k) ==
    IF k > Len(list) THEN pending
    ELSE IF QueryByUrl(committed, list[k])
         THEN SaveLoop(committed, pending, list, k + 1)       \* continue
         ELSE SaveLoop(committed, Append(pending, list[k]), list, k + 1)

InitIngest ==
    /\ InitIngestVars
    /\ articles = <<>>
    /\ writes = <<>>
    /\ InitRunVars
    /\ InitDecodeVars
    /\ InitRetryVars
    /\ InitStartupVars
    /\ InitRepeatVars
    /\ InitUpdateVars
    /\ InitOverlapVars
    /\ InitMailVars

notIngestVars == <<decodeVars, storeVars, runVars, retryVars, startupVars, repeatVars, updateVars, overlapVars, mailVars>>

\* save_articles(list), the commit succeeds: the added rows are stored and
\* returned.
SaveArticles(list) ==
    /\ ingest_calls < MaxSaves
    /\ LET saved_articles == SaveLoop(stored_urls, <<>>, list, 1)
       IN  /\ stored_urls' = stored_urls \o saved_articles
           /\ last_saved' = saved_articles
    /\ ingest_calls' = ingest_calls + 1
    /\ last_save' = [articles |-> list, error_at |-> 0]
    /\ UNCHANGED notIngestVars

\* session.rollback() keeping what the session had added.
RollbackKeepsPending(committed, pending) == committed \o pending

\* session.rollback(): the rows added to the session and not committed are
\* discarded.
Rollback(committed, pending) == committed

\* save_articles(list), a SQLAlchemyError in the query for article error_at
\* or, for error_at = len(list) + 1, in the commit: rollback, [] returned.
SaveArticlesFails(list, error_at) ==
    /\ ingest_calls < MaxSaves
    /\ LET pending == SaveLoop(stored_urls, <<>>, SubSeq(list, 1, error_at - 1), 1)
       IN  stored_urls' = Rollback(stored_urls, pending)
    /\ last_saved' = <<>>
    /\ ingest_calls' = ingest_calls + 1
    /\ last_save' = [articles |-> list, error_at |-> error_at]
    /\ UNCHANGED notIngestVars

NextIngest ==
    \/ \E list \in ArticleLists : SaveArticles(list)
    \/ \E list \in ArticleLists :
          \E error_at \in 1..(Len(list) + 1) : SaveArticlesFails(list, error_at)

SpecIngest == InitIngest /\ [][NextIngest]_vars

(***************************************************************************)
(* SpecRepeat: _parse_batch_response called several times on one filter    *)
(* object; every call and what it gave is logged.                          *)
(***************************************************************************)
\* Replies decoded again and again: arrays that decode, one shorter and one
\* longer than expected, one whose decoding raises, prose, no reply.
RepeatReplies ==
    {Render(<<ElemOk>>), Render(<<ElemClamp, ElemNoSel>>), Render(<<ElemWordScore>>),
     Reply(<<Tok("x")>>), NoReply}

RepeatCounts == 0..MaxRepeatCount

InitRepeat ==
    /\ InitRepeatVars
    /\ articles = <<>>
    /\ writes = <<>>
    /\ InitRunVars
    /\ InitDecodeVars
    /\ InitRetryVars
    /\ InitStartupVars
    /\ InitIngestVars
    /\ InitUpdateVars
    /\ InitOverlapVars
    /\ InitMailVars

notRepeatVars == <<decodeVars, storeVars, runVars, retryVars, startupVars, ingestVars, updateVars, overlapVars, mailVars>>

\* DecodeCall of a decoder that pads and truncates to the expected_count of
\* the call before it.
DecodeCallKeepsCount(reply, n) ==
    /\ Len(decode_log) < MaxDecodes
    /\ LET kept == IF decode_log = <<>> THEN n ELSE decode_log[Len(decode_log)].expected_count
       IN  decode_log' = Append(decode_log,
                                [response |-> reply, expected_count |-> n,
                                 ret |-> _parse_batch_response(reply, kept)])
    /\ UNCHANGED notRepeatVars

\* One call _parse_batch_response(reply, n): it reads its two arguments and
\* nothing else, and writes no attribute of the filter.
DecodeCall(reply, n) ==
    /\ Len(decode_log) < MaxDecodes
    /\ decode_log' = Append(decode_log,
                            [response |-> reply, expected_count |-> n,
                             ret |-> _parse_batch_response(reply, n)])
    /\ UNCHANGED notRepeatVars

NextRepeat == \E reply \in RepeatReplies, n \in RepeatCounts : DecodeCall(reply, n)

SpecRepeat == InitRepeat /\ [][NextRepeat]_vars

(***************************************************************************)
(* SpecUpdate: DatabaseManager.update_article_filter_result called with    *)
(* results of the decoder, on any article id, one call after another.      *)
(***************************************************************************)
\* The results the decoder hands over.
UpdateResults == {CleanOne(e) : e \in ValidElems}

\* Ids asked for: the rows of the table and ids that are not in it.
ArticleIds == 1..MaxArticles

InitUpdate ==
    /\ \E n \in 1..MaxArticles : articles = [id \in 1..n |-> NewRow]
    /\ writes = [id \in DOMAIN articles |-> 0]
    /\ InitUpdateVars
    /\ InitRunVars
    /\ InitDecodeVars
    /\ InitRetryVars
    /\ InitStartupVars
    /\ InitIngestVars
    /\ InitRepeatVars
    /\ InitOverlapVars
    /\ InitMailVars

notUpdateVars == <<decodeVars, runVars, retryVars, startupVars, ingestVars, repeatVars, overlapVars, mailVars>>

\* The article exists and the commit succeeds: True.
UpdateCommits(article_id, filter_result) ==
    /\ article_id \in DOMAIN articles
    /\ writes[article_id] < MaxUpdates
    /\ articles' = [articles EXCEPT
                       ![article_id] = UpdatedRow(articles[article_id], filter_result)]
    /\ writes' = [writes EXCEPT ![article_id] = @ + 1]
    /\ last_call' = [article_id |-> article_id, filter_result |-> filter_result]
    /\ update_ret' = "True"
    /\ UNCHANGED notUpdateVars

\* `if not article`: False, nothing written.
UpdateNotFound(article_id, filter_result) ==
    /\ article_id \notin DOMAIN articles
    /\ last_call' = [article_id |-> article_id, filter_result |-> filter_result]
    /\ update_ret' = "False"
    /\ UNCHANGED storeVars
    /\ UNCHANGED notUpdateVars

\* A SQLAlchemyError: rollback, False.
UpdateRollsBack(article_id, filter_result) ==
    /\ article_id \in DOMAIN articles
    /\ last_call' = [article_id |-> article_id, filter_result |-> filter_result]
    /\ update_ret' = "False"
    /\ UNCHANGED storeVars
    /\ UNCHANGED notUpdateVars

NextUpdate ==
    \E article_id \in ArticleIds, filter_result \in UpdateResults :
        \/ UpdateCommits(article_id, filter_result)
        \/ UpdateNotFound(article_id, filter_result)
        \/ UpdateRollsBack(article_id, filter_result)

SpecUpdate == InitUpdate /\ [][NextUpdate]_vars

(***************************************************************************)
(* SpecOverlap: two processes run the orchestrator against one store, their *)
(* steps interleaved.  Each works on the list it fetched, in its own        *)
(* session; the store is shared.                                            *)
(***************************************************************************)
InitOverlap ==
    /\ \E n \in 1..MaxArticles : articles = [id \in 1..n |-> NewRow]
    /\ writes = [id \in DOMAIN articles |-> 0]
    /\ InitOverlapVars
    /\ InitRunVars
    /\ InitDecodeVars
    /\ InitRetryVars
    /\ InitStartupVars
    /\ InitIngestVars
    /\ InitRepeatVars
    /\ InitUpdateVars
    /\ InitMailVars

notOverlapVars == <<decodeVars, runVars, retryVars, startupVars, ingestVars, repeatVars,
                    updateVars, mailVars>>

\* The batch of run r: articles[batch_start:batch_end].
OverlapBatch(run) == BatchSlice(run.articles, run.batch_start, run.batch_size)

\* filter_unprocessed_articles(limit) of run r: the fetch.
OverlapFetch(r, limit, bs) ==
    /\ overlap_runs[r].pc = "idle"
    /\ LET fetched == get_unfiltered_articles(limit)
       IN  overlap_runs' = [overlap_runs EXCEPT ![r] =
              [@ EXCEPT !.articles = fetched,
                        !.batch_size = bs,
                        !.batch_start = 0,
                        !.pc = IF fetched = <<>> THEN "done" ELSE "batch"]]
    /\ UNCHANGED storeVars
    /\ UNCHANGED notOverlapVars

\* Run r submits its current batch to the LLM and gets its results: a cleaned
\* object for every article (ok), or None for every article.
OverlapSubmit(r, ok) ==
    /\ overlap_runs[r].pc = "batch"
    /\ LET run == overlap_runs[r]
           batch == OverlapBatch(run)
       IN  overlap_runs' = [overlap_runs EXCEPT ![r] =
              [@ EXCEPT !.batch_results = IF ok THEN [k \in 1..Len(batch) |-> CleanOne(ElemOk)]
                                          ELSE NoneList(Len(batch)),
                        !.i = 1,
                        !.submitted = @ \cup {batch[k] : k \in 1..Len(batch)},
                        !.pc = "write"]]
    /\ UNCHANGED storeVars
    /\ UNCHANGED notOverlapVars

\* Body of the zip loop of run r: a present result is written back (the
\* update commits or fails), an absent one is counted failed.
OverlapWriteBack(r, commits) ==
    /\ overlap_runs[r].pc = "write"
    /\ LET run == overlap_runs[r]
           batch == OverlapBatch(run)
       IN  /\ run.i <= Min2(Len(batch), Len(run.batch_results))
           /\ LET article_id == batch[run.i]
                  result == run.batch_results[run.i]
                  written == Truthy(result) /\ commits
              IN  /\ articles' = IF written
                                 THEN [articles EXCEPT ![article_id] =
                                          UpdatedRow(articles[article_id], result)]
                                 ELSE articles
                  /\ writes' = IF written
                               THEN [writes EXCEPT ![article_id] = @ + 1]
                               ELSE writes
                  /\ overlap_runs' = [overlap_runs EXCEPT ![r] =
                        [@ EXCEPT !.i = @ + 1,
                                  !.written = IF written THEN @ \cup {article_id}
                                              ELSE @]]
    /\ UNCHANGED notOverlapVars

\* The zip loop of run r is exhausted: next batch, or the run returns.
OverlapEndBatch(r) ==
    /\ overlap_runs[r].pc = "write"
    /\ LET run == overlap_runs[r]
           batch == OverlapBatch(run)
       IN  /\ run.i > Min2(Len(batch), Len(run.batch_results))
           /\ overlap_runs' = [overlap_runs EXCEPT ![r] =
                 IF run.batch_start + run.batch_size < Len(run.articles)
                 THEN [@ EXCEPT !.batch_start = @ + run.batch_size, !.pc = "batch"]
                 ELSE [@ EXCEPT !.pc = "done"]]
    /\ UNCHANGED storeVars
    /\ UNCHANGED notOverlapVars

NextOverlap ==
    \E r \in Runs :
        \/ \E limit \in Limits, bs \in 1..MaxBatchSize : OverlapFetch(r, limit, bs)
        \/ \E ok \in BOOLEAN : OverlapSubmit(r, ok)
        \/ \E commits \in BOOLEAN : OverlapWriteBack(r, commits)
        \/ OverlapEndBatch(r)

SpecOverlap == InitOverlap /\ [][NextOverlap]_vars

(***************************************************************************)
(* SpecMail: ingestion runs (fetch_and_store_emails) one after another.    *)
(* A run fetches the alert emails of the last days, so a later run gets    *)
(* emails of an earlier run again.  An email is its message_id.            *)
(***************************************************************************)
MessageIds == 1..MaxEmails

\* The urls of the articles parsed from email m: two articles, the second
\* one also listed by the next email.
ArticlesOf(m) == <<((m - 1) % MaxUrls) + 1, (m % MaxUrls) + 1>>

\* What fetch_google_alerts can return: the emails of the mailbox in the
\* search window, each once; [] also when the search raises.
RECURSIVE DistinctLists(_)
DistinctLists(S) ==
    {<<>>} \cup UNION {{<<m>> \o l : l \in DistinctLists(S \ {m})} : m \in S}

FetchedLists == DistinctLists(MessageIds)

SeqRange(q) == {q[k] : k \in 1..Len(q)}

InitMail ==
    /\ InitMailVars
    /\ InitIngestVars
    /\ articles = <<>>
    /\ writes = <<>>
    /\ InitRunVars
    /\ InitDecodeVars
    /\ InitRetryVars
    /\ InitStartupVars
    /\ InitRepeatVars
    /\ InitUpdateVars
    /\ InitOverlapVars

notMailVars == <<decodeVars, storeVars, runVars, retryVars, startupVars, repeatVars,
                 updateVars, overlapVars>>

\* fetch_and_store_emails starts: alert_emails = fetch_google_alerts(days).
MailFetch(list) ==
    /\ mail_pc = "idle"
    /\ mail_runs < MaxMailRuns
    /\ alert_emails' = list
    /\ mail_k' = 1
    /\ mail_pc' = IF list = <<>> THEN "idle" ELSE "email"     \* if not alert_emails
    /\ mail_runs' = mail_runs + 1
    /\ rows_at_start' = email_rows
    /\ run_error' = FALSE
    /\ saved_email' = ""
    /\ UNCHANGED <<email_rows, ingestVars>>
    /\ UNCHANGED notMailVars

\* The loop goes to the next email, or the run returns.
NextEmail ==
    /\ mail_k' = mail_k + 1
    /\ mail_pc' = IF mail_k + 1 > Len(alert_emails) THEN "idle" ELSE "email"

\* SaveAlertEmail without the test for a stored message_id.
SaveAlertEmailNoTest ==
    /\ mail_pc = "email"
    /\ email_rows' = Append(email_rows, alert_emails[mail_k])
    /\ saved_email' = "email"
    /\ mail_pc' = "articles"
    /\ UNCHANGED <<alert_emails, mail_k, mail_runs, rows_at_start, run_error, ingestVars>>
    /\ UNCHANGED notMailVars

\* save_alert_email(email) without a store error: None for a stored
\* message_id, else the row is committed and returned.  The loop calls
\* save_articles only `if saved_email and email.articles`.
SaveAlertEmail ==
    /\ mail_pc = "email"
    /\ IF alert_emails[mail_k] \in SeqRange(email_rows)
       THEN /\ saved_email' = "None"
            /\ NextEmail
            /\ UNCHANGED email_rows
       ELSE /\ email_rows' = Append(email_rows, alert_emails[mail_k])
            /\ saved_email' = "email"
            /\ mail_pc' = "articles"
            /\ UNCHANGED mail_k
    /\ UNCHANGED <<alert_emails, mail_runs, rows_at_start, run_error, ingestVars>>
    /\ UNCHANGED notMailVars

\* save_alert_email(email), a SQLAlchemyError: rollback, None.
SaveAlertEmailFails ==
    /\ mail_pc = "email"
    /\ saved_email' = "None"
    /\ run_error' = TRUE
    /\ NextEmail
    /\ UNCHANGED <<email_rows, alert_emails, mail_runs, rows_at_start, ingestVars>>
    /\ UNCHANGED notMailVars

\* save_articles(email.articles) of the loop, the commit succeeds.
MailSaveArticles ==
    /\ mail_pc = "articles"
    /\ LET saved_articles ==
               SaveLoop(stored_urls, <<>>, ArticlesOf(alert_emails[mail_k]), 1)
       IN  /\ stored_urls' = stored_urls \o saved_articles
           /\ last_saved' = saved_articles
    /\ NextEmail
    /\ UNCHANGED <<email_rows, alert_emails, saved_email, mail_runs, rows_at_start,
                   run_error, ingest_calls, last_save>>
    /\ UNCHANGED notMailVars

\* save_articles(email.articles) of the loop, a SQLAlchemyError: rollback, [].
MailSaveArticlesFails ==
    /\ mail_pc = "articles"
    /\ last_saved' = <<>>
    /\ run_error' = TRUE
    /\ NextEmail
    /\ UNCHANGED <<email_rows, alert_emails, saved_email, mail_runs, rows_at_start,
                   stored_urls, ingest_calls, last_save>>
    /\ UNCHANGED notMailVars

NextMail ==
    \/ \E list \in FetchedLists : MailFetch(list)
    \/ SaveAlertEmail
    \/ SaveAlertEmailFails
    \/ MailSaveArticles
    \/ MailSaveArticlesFails

SpecMail == InitMail /\ [][NextMail]_vars

(***************************************************************************)
(* Properties of the decoder (SpecDecode).                                 *)
(***************************************************************************)
\* M and N of the decoded reply, and the positions both cover.
KeptCount == Min2(Len(llm_elems), expected_count)
DecodedArray == dpc = "returned" /\ wellformed

\* The decoder's list for another array and the same expected_count.
DecodeOf(elems) == _parse_batch_response(Render(elems), expected_count).results

\* The entry carries the identifying fields of the element.
CarriesFieldsOf(entry, e) ==
    /\ entry.kind = "obj"
    /\ entry.is_selected = e.is_selected
    /\ entry.reason = e.reason
    /\ entry.quality_score.t = "num"
    /\ entry.relevance_score.t = "num"
    /\ (e.quality_score.t = "num" /\ e.quality_score.n \in 1..10
            => entry.quality_score = e.quality_score)
    /\ (e.relevance_score.t = "num" /\ e.relevance_score.n \in 1..10
            => entry.relevance_score = e.relevance_score)

\* C1: for every raw reply (empty, missing, truncated JSON, prose, an array of
\* the wrong length or of wrongly typed elements) and every expected_count N,
\* _parse_batch_response returns a list of exactly N entries and no exception
\* leaves it.
C1_ExactlyNNeverRaises ==
    dpc = "returned" =>
        /\ ~decode_raised
        /\ Len(cleaned_results) = expected_count
        /\ DOMAIN cleaned_results = 1..expected_count

\* C1 witness: a free-form reply that has both brackets but renders no array
\* has been decoded for two expected results.
C1_Witness ==
    /\ dpc = "returned"
    /\ ~wellformed
    /\ ~response.none
    /\ Find(response.text, "[") # -1
    /\ RFind(response.text, "]") # -1
    /\ expected_count = 2
    /\ cleaned_results = <<None, None>>

\* C2: when the reply holds a parseable array of length M and N results are
\* expected, every populated entry at a position i <= min(M, N) carries the
\* fields of the parsed element at that same position, and a valid element is
\* populated there unless a kept element's score cannot be converted; for
\* M < N the positions M+1..N are absent markers; for M > N the list is the one
\* the first N elements alone give, the last M - N elements being discarded.
C2_PositionalAlignment ==
    DecodedArray =>
        /\ Len(cleaned_results) = expected_count
        /\ \A p \in 1..expected_count :
              /\ p > Len(llm_elems) => cleaned_results[p] = None
              /\ p <= Len(llm_elems) /\ cleaned_results[p] # None
                    => CarriesFieldsOf(cleaned_results[p], llm_elems[p])
              /\ (/\ p <= Len(llm_elems)
                  /\ llm_elems[p] \in ValidElems
                  /\ \A k \in 1..KeptCount : llm_elems[k] \notin BadScoreElems)
                    => cleaned_results[p] # None
        /\ Len(llm_elems) > expected_count
              => cleaned_results = DecodeOf(SubSeq(llm_elems, 1, expected_count))

\* C2 witness: a two-element array decoded for one expected result keeps the
\* first element, whose is_selected differs from the discarded one's.
C2_Witness ==
    /\ DecodedArray
    /\ Len(llm_elems) = 2
    /\ expected_count = 1
    /\ llm_elems[1] = ElemClamp
    /\ llm_elems[2] = ElemOk
    /\ cleaned_results[1] # None
    /\ cleaned_results[1].is_selected = JFalse

\* C3: when one element of an otherwise valid array has a non-numeric
\* quality_score or relevance_score, only that element's position becomes an
\* absent marker; every other position whose element is valid is still a
\* populated result.
C3_BadScoreOnlyOwnPosition ==
    DecodedArray =>
        \A p \in 1..KeptCount :
            /\ llm_elems[p] \in BadScoreElems => cleaned_results[p] = None
            /\ llm_elems[p] \in {ElemOk, ElemClamp, ElemNullSel}
                  => cleaned_results[p] # None

\* C4: an element that is not an object, or that lacks one of the four
\* required keys, makes exactly its own position an absent marker: the other
\* positions hold what they hold when a valid element stands in its place, and
\* in an array whose only defects are of this kind a position is populated
\* exactly when its element is valid.
C4_MissingKeyOnlyOwnPosition ==
    DecodedArray =>
        /\ \A p \in 1..KeptCount :
              llm_elems[p] \in MissingKeyElems \cup NonObjElems
                => /\ cleaned_results[p] = None
                   /\ \A q \in (1..expected_count) \ {p} :
                        cleaned_results[q]
                            = DecodeOf([llm_elems EXCEPT ![p] = ElemOk])[q]
        /\ (\A k \in 1..KeptCount : llm_elems[k] \notin BadScoreElems)
              => \A p \in 1..KeptCount :
                    cleaned_results[p] # None <=> llm_elems[p] \in ValidElems

\* C4 witness: an element without `reason` stands before a valid element and
\* both positions were decoded: the first is absent, the second populated.
C4_Witness ==
    /\ DecodedArray
    /\ expected_count = 2
    /\ llm_elems = <<ElemNoReason, ElemOk>>
    /\ cleaned_results[1] = None
    /\ cleaned_results[2] # None

(***************************************************************************)
(* Properties of the orchestration runs (Spec).                            *)
(***************************************************************************)
\* A run has returned its statistics.
RunReturned == pc = "idle" /\ runs > 0

Positions == 1..Len(unfiltered_articles)
CountOutcome(S) == Cardinality({p \in Positions : outcome[p] \in S})

\* ceil(L / B) for the run's list and batch size.
BatchCount == (Len(unfiltered_articles) + batch_size - 1) \div batch_size

\* The store row of the article at position p of the run's list.
RowAt(p) == articles[unfiltered_articles[p]]

C6_FailedBatchState ==
    /\ \A p \in Positions :
          llm_failed[p] => /\ ~decoded_present[p]
                           /\ outcome[p] \in {"pending", "decode_failed"}
    /\ stats.failed = CountOutcome({"decode_failed", "write_failed"})
    /\ RunReturned =>
          /\ submissions = BatchCount
          /\ \A p \in Positions :
                /\ outcome[p] # "pending"
                /\ decoded_present[p] => outcome[p] # "decode_failed"

\* C6, in every step: while the zip loop handles a failed batch nothing is
\* written to the store, and the end of a failed batch that is not the last
\* one leads to the next batch.
C6_FailedBatchStep ==
    /\ (pc = "write" /\ Pos \in Positions /\ llm_failed[Pos])
          => (articles' = articles /\ writes' = writes)
    /\ (/\ pc = "write"
        /\ pc' # "write"
        /\ llm_failed[batch_start + 1]
        /\ batch_start + batch_size < Len(unfiltered_articles))
          => (/\ pc' = "batch"
              /\ batch_start' = batch_start + batch_size
              /\ stats'.failed = stats.failed)

\* C6: if the LLM call or the decoding of batch k fails, exactly the articles
\* of batch k are counted failed, none of them is written to the store, and
\* every later batch is still submitted, decoded and written back.
C6_FailedBatchIsolated == []C6_FailedBatchState /\ [][C6_FailedBatchStep]_vars

\* C6 witness: a run returned whose first batch failed and whose later batch
\* had an article written and counted selected.
C6_Witness ==
    /\ RunReturned
    /\ Len(unfiltered_articles) >= 2
    /\ llm_failed[1]
    /\ outcome[1] = "decode_failed"
    /\ \E p \in Positions : p > batch_size /\ outcome[p] = "selected"

\* C7: a failed write-back does not keep the other articles of its batch from
\* their write-back: when the loop has left a batch, and when the run has
\* returned, every article whose decoded result was present had its update
\* tried (it ended selected, rejected or write_failed), in every batch.
C7_WriteFailureIsolated ==
    \A p \in Positions :
        (/\ decoded_present[p]
         /\ \/ RunReturned
            \/ p <= batch_start
            \/ pc = "write" /\ p < Pos)
            => outcome[p] \in {"selected", "rejected", "write_failed"}

\* C7 witness: in a batch of two the first update failed and the second
\* article was written, and the run went on to its next batch and returned.
C7_Witness ==
    /\ RunReturned
    /\ batch_size = 2
    /\ Len(unfiltered_articles) = 3
    /\ outcome[1] = "write_failed"
    /\ outcome[2] = "selected"
    /\ outcome[3] = "rejected"

\* A row no write-back has touched.
FullyUnclassified(row) ==
    /\ row.is_selected = JNull
    /\ row.quality_score = JNull
    /\ row.relevance_score = JNull
    /\ row.filter_reason = JNull
    /\ row.key_points = JNull
    /\ row.category = JNull

\* A classified row with its payload (NULL key_points stands for an empty
\* list of key points).
FullyPopulated(row) ==
    /\ row.is_selected \in {JTrue, JFalse}
    /\ row.quality_score.t = "num"
    /\ row.relevance_score.t = "num"
    /\ row.filter_reason # JNull
    /\ row.category # JNull

\* C8: in every reachable state of the store each article is either fully
\* unclassified or fully populated (accepted or rejected, with its scores,
\* reason and category); no mixture of the two is persisted.
C8_AllOrNothingPayload ==
    \A id \in DOMAIN articles :
        FullyUnclassified(articles[id]) \/ FullyPopulated(articles[id])

\* C9: at the end of a run every article counted selected is stored accepted,
\* every article counted rejected is stored rejected, and processed is the
\* number of the run's articles whose row is classified, whatever is_selected
\* the LLM gave.
C9_CountsMatchStore ==
    RunReturned =>
        /\ \A p \in Positions :
              /\ outcome[p] = "selected" => RowAt(p).is_selected = JTrue
              /\ outcome[p] = "rejected" => RowAt(p).is_selected = JFalse
        /\ stats.processed
              = Cardinality({p \in Positions : RowAt(p).is_selected # JNull})

\* C10: over runs executed one after another each article receives at most
\* one successful write-back, and a run that has started fetched no article
\* that had one.
C10_AtMostOneWriteBack ==
    /\ \A id \in DOMAIN articles : writes[id] <= 1
    /\ \A p \in Positions :
          outcome[p] = "pending" => writes[unfiltered_articles[p]] = 0

\* C11, in every state: the prompt of the current batch lists the batch's
\* articles numbered 1..N in batch order.
C11_PromptInBatchOrder ==
    pc \in {"batch", "write"} =>
        /\ Len(batch_prompt) = batch_end - batch_start
        /\ \A k \in 1..Len(batch_prompt) :
              /\ batch_prompt[k].number = k
              /\ batch_prompt[k].article = unfiltered_articles[batch_start + k]

\* C11, in every step: a successful write-back stores the decoded result at
\* position i of the batch in the row of the article the prompt lists as
\* number i, and touches no other row.
C11_WriteBackAtSamePosition ==
    writes' # writes =>
        /\ pc = "write"
        /\ i <= Len(batch_prompt)
        /\ LET id == batch_prompt[i].article
           IN  /\ id = unfiltered_articles[batch_start + i]
               /\ writes' = [writes EXCEPT ![id] = @ + 1]
               /\ articles' = [articles EXCEPT
                                  ![id] = UpdatedRow(articles[id], batch_results[i])]

\* C11: order is preserved end to end inside a batch: the prompt lists the
\* batch's articles numbered 1..N in batch order, and the decoded result at
\* position i is written back to the article at position i of that same
\* batch, never to another article of the batch or of another batch.
C11_OrderPreserved ==
    []C11_PromptInBatchOrder /\ [][C11_WriteBackAtSamePosition]_vars

\* C11 witness: a run over three articles in batches of two returned; the
\* first article was rejected, the second got no result, and the third, alone
\* in the second batch, was accepted, each row holding its own result.
C11_Witness ==
    /\ RunReturned
    /\ batch_size = 2
    /\ Len(unfiltered_articles) = 3
    /\ outcome = <<"rejected", "decode_failed", "selected">>
    /\ RowAt(1).is_selected = JFalse
    /\ RowAt(2).is_selected = JNull
    /\ RowAt(3).is_selected = JTrue
    /\ writes[unfiltered_articles[3]] = 1

\* The score the response gave, brought into [1,10].
InRange(v) == IF v < 1 THEN 1 ELSE IF v > 10 THEN 10 ELSE v

\* C12: for every populated result the decoder returns, quality_score and
\* relevance_score are the numeric value v the response gave for that key
\* when 1 <= v <= 10, 1 when v < 1 and 10 when v > 10; and the row
\* update_article_filter_result writes from that result has both scores in
\* [1,10].
C12_ScoresClamped ==
    DecodedArray =>
        \A p \in 1..KeptCount :
            cleaned_results[p] # None =>
                LET e == llm_elems[p]
                    row == UpdatedRow(NewRow, cleaned_results[p])
                IN  /\ cleaned_results[p].quality_score
                          = JNum(InRange(ToFloat(e.quality_score)))
                    /\ cleaned_results[p].relevance_score
                          = JNum(InRange(ToFloat(e.relevance_score)))
                    /\ row.quality_score.t = "num"
                    /\ row.quality_score.n \in 1..10
                    /\ row.relevance_score.t = "num"
                    /\ row.relevance_score.n \in 1..10

\* C12 witness: an element with quality_score 12 and relevance_score 0 was
\* decoded next to one whose scores 7 and 5 are in range.
C12_Witness ==
    /\ DecodedArray
    /\ expected_count = 2
    /\ llm_elems = <<ElemClamp, ElemOk>>
    /\ cleaned_results[1].quality_score = JNum(10)
    /\ cleaned_results[1].relevance_score = JNum(1)
    /\ cleaned_results[2].quality_score = JNum(7)
    /\ cleaned_results[2].relevance_score = JNum(5)

\* Replies without "[", without "]", with the last "]" before the first "[",
\* or whose text from the first "[" to the last "]" is not JSON.
UndecodableShapes == {"no_open", "no_close", "close_before_open", "unparseable"}

\* The positions of the current batch.
BatchPositions == (batch_start + 1)..batch_end

\* C13, in every state: after such a reply the batch filter's list is N
\* absent markers, every article of the batch the loop has handled is counted
\* failed, and when the loop is through the batch all N are.
C13_UndecodableState ==
    (pc = "write" /\ reply_shape \in UndecodableShapes) =>
        /\ batch_results = NoneList(batch_end - batch_start)
        /\ \A p \in BatchPositions :
              outcome[p] = IF p < Pos THEN "decode_failed" ELSE "pending"
        /\ stats.failed = CountOutcome({"decode_failed", "write_failed"})

\* C13, in every step: while the loop handles that batch nothing is written,
\* and the loop leaves the batch only with all N articles counted failed.
C13_UndecodableStep ==
    (pc = "write" /\ reply_shape \in UndecodableShapes) =>
        /\ articles' = articles
        /\ writes' = writes
        /\ stats'.processed = stats.processed
        /\ pc' # "write" =>
              /\ \A p \in BatchPositions : outcome[p] = "decode_failed"
              /\ stats' = stats

\* C13: if the raw response has no "[", or no "]", or its last "]" lies before
\* its first "[", or the text between them is not parseable JSON, the decoder
\* returns N absent markers for a batch of N articles, the orchestrator
\* performs no write-back for that batch and counts all N articles as failed.
C13_UndecodableBatchFails ==
    []C13_UndecodableState /\ [][C13_UndecodableStep]_vars

\* C13 witness: a run returned whose last batch, of two articles, got a reply
\* with both brackets and no JSON between them; both articles were counted
\* failed and neither row was written.
C13_Witness ==
    /\ RunReturned
    /\ reply_shape = "unparseable"
    /\ batch_end - batch_start = 2
    /\ \A p \in BatchPositions :
          /\ outcome[p] = "decode_failed"
          /\ writes[unfiltered_articles[p]] = 0


\* Length of the last batch of a list of L articles in batches of B.
LastBatchLen(L, B) == IF L % B = 0 THEN B ELSE L % B

\* C14, in every state of a run: the current batch is the slice of B
\* consecutive articles starting at a multiple of B (the last one of L mod B
\* articles, or B), every article before it has been handled and none after
\* it; a returned run has handled every article in ceil(L / B) batches.
C14_BatchesState ==
    LET L == Len(unfiltered_articles)
    IN  /\ pc \in {"batch", "write"} =>
              /\ batch_start % batch_size = 0
              /\ batch_start < L
              /\ Len(batch_articles)
                    = IF batch_start + batch_size < L THEN batch_size
                      ELSE LastBatchLen(L, batch_size)
              /\ \A k \in 1..Len(batch_articles) :
                    batch_articles[k] = unfiltered_articles[batch_start + k]
              /\ \A p \in 1..batch_start : outcome[p] # "pending"
              /\ \A p \in (batch_start + Len(batch_articles) + 1)..L :
                    outcome[p] = "pending"
              /\ submissions = (batch_start \div batch_size)
                                  + (IF pc = "write" THEN 1 ELSE 0)
        /\ RunReturned =>
              /\ \A p \in 1..L : outcome[p] # "pending"
              /\ submissions = BatchCount

\* C14, in every step of a run: the next batch starts where the current one
\* ends, a full batch later, and an article that has been handled is not
\* handled again.
C14_BatchesStep ==
    pc # "idle" =>
        /\ batch_start' # batch_start =>
              /\ Len(batch_articles) = batch_size
              /\ batch_start' = batch_start + batch_size
        /\ \A p \in Positions : outcome[p] # "pending" => outcome'[p] = outcome[p]

\* C14: for every article list of length L and every batch_size B >= 1 the
\* batches are consecutive slices that cover the list exactly once in order;
\* every batch but the last has length B and the last has length L mod B, or
\* B when L mod B = 0.
C14_BatchesCoverOnce == []C14_BatchesState /\ [][C14_BatchesStep]_vars

\* C14 witness: the second batch of a list of three articles in batches of
\* two is being written: it holds the third article alone.
C14_Witness ==
    /\ pc = "write"
    /\ Len(unfiltered_articles) = 3
    /\ batch_size = 2
    /\ batch_start = 2
    /\ batch_articles = <<unfiltered_articles[3]>>
    /\ submissions = 2

(***************************************************************************)
(* Properties of the retrying client (SpecRetry).                          *)
(***************************************************************************)
\* C15, in every state: at most max_retries attempts were made and none
\* after one that succeeded; no exception left _call_api_with_retry; it
\* returned None exactly when every one of the max_retries attempts failed,
\* and the caller then gave [None] * len(articles).
C15_RetryState ==
    /\ Len(attempt_log) <= self_max_retries
    /\ \A k \in 1..(Len(attempt_log) - 1) : attempt_log[k] = "error"
    /\ rpc # "raised"
    /\ rpc \in {"returned", "done"} =>
          /\ call_ret.none <=> (\A k \in 1..Len(attempt_log) : attempt_log[k] = "error")
          /\ call_ret.none => Len(attempt_log) = self_max_retries
    /\ (rpc = "done" /\ call_ret.none) => batch_results = NoneList(expected_count)

\* C15, in every step: once the call has returned no attempt is made.
C15_RetryStep ==
    rpc \in {"returned", "done"} => attempt_log' = attempt_log

\* C15: _call_api_with_retry makes at most max_retries API attempts for one
\* prompt, none after the first that succeeds, and returns None instead of
\* raising when every attempt fails; the caller then treats the batch as
\* having no response.
C15_BoundedRetries == []C15_RetryState /\ [][C15_RetryStep]_vars

\* C15 witness: with max_retries = 3 all three attempts failed, None was
\* returned and the caller gave two absent markers.
C15_Witness ==
    /\ rpc = "done"
    /\ self_max_retries = 3
    /\ attempt_log = <<"error", "error", "error">>
    /\ call_ret = NoReply
    /\ expected_count = 2
    /\ batch_results = <<None, None>>

\* C16: the wait before the (k+1)-th attempt is the base delay doubled k-1
\* times (base, 2*base, 4*base, ...), and no wait follows the last failed
\* attempt.
C16_ExponentialBackoff ==
    /\ \A k \in 1..Len(sleeps) : sleeps[k] = retry_delay * 2^(k - 1)
    /\ Len(sleeps) <= Max2(self_max_retries, 1) - 1

(***************************************************************************)
(* Batches one after another (Spec).                                       *)
(***************************************************************************)
\* The LLM call of the current batch is outstanding.
CallOutstanding == pc = "batch"

C18_SequentialState ==
    pc # "idle" =>
       /\ batch_prompt = _build_batch_prompt(batch_articles)
       /\ \A p \in 1..batch_start : outcome[p] # "pending"
       /\ \A p \in (batch_end + 1)..Len(unfiltered_articles) : outcome[p] = "pending"
       /\ CallOutstanding =>
             \A p \in (batch_start + 1)..batch_end : outcome[p] = "pending"

C18_SequentialStep ==
    pc # "idle" =>
       /\ batch_prompt' # batch_prompt =>
             /\ pc = "write" /\ pc' = "batch"
             /\ \A p \in (batch_start + 1)..batch_end : outcome[p] # "pending"
       /\ submissions' # submissions =>
             /\ CallOutstanding /\ pc' = "write"
             /\ submissions' = submissions + 1
       /\ (articles' # articles \/ outcome' # outcome \/ writes' # writes) =>
             ~CallOutstanding /\ pc' = "write"

\* C18: batches are processed strictly one after another: one call is
\* outstanding at most, no result is written while it is, and the prompt of
\* the next batch is built only when every article of the current batch has
\* its outcome (written, write failed or no result).
C18_BatchesSequential == []C18_SequentialState /\ [][C18_SequentialStep]_vars

\* The call of a later batch is outstanding after a batch with one
\* write-back that succeeded and one that failed.
C18_Witness ==
    /\ CallOutstanding
    /\ batch_start > 0
    /\ \E p \in 1..batch_start : outcome[p] = "write_failed"
    /\ \E p \in 1..batch_start : outcome[p] \in {"selected", "rejected"}

(***************************************************************************)
(* Properties of the program start (SpecStartup).                          *)
(***************************************************************************)
\* C17: when DEEPSEEK_API_KEY is missing, constructing the filter raises and
\* every entry point that runs the workflow halts before any email is
\* fetched or any article is classified.
C17_MissingKeyHaltsWorkflow ==
    /\ DeepSeekFilter_init(FALSE) = "ValueError"
    /\ (~api_key_set /\ mode = "full") =>
          /\ ~emails_fetched
          /\ ~classify_called
          /\ spc # "finished"

(***************************************************************************)
(* Properties of the ingestion (SpecIngest).                               *)
(***************************************************************************)
\* C19: after any sequence of save_articles calls no two stored articles
\* have the same URL, also when the list of one call holds a URL twice.
C19_UrlUnique ==
    \A j, k \in 1..Len(stored_urls) :
        stored_urls[j] = stored_urls[k] => j = k

PopulatedPositions ==
    {k \in 1..Len(cleaned_results) :
        k <= Len(llm_elems) /\ cleaned_results[k] # None}

\* C21: in every populated result key_points is a list: empty when the
\* element had no key_points key, the element's list when it was a list, the
\* one-element list of the value's string form otherwise; category is the
\* element's value when present and the default label when the key was
\* missing.
C21_OptionalFieldDefaults ==
    (dpc = "returned" /\ wellformed /\ ~decode_raised) =>
        \A k \in PopulatedPositions :
            LET e == llm_elems[k]
                r == cleaned_results[k]
            IN  /\ r.key_points.t = "list"
                /\ e.key_points.t = "missing" => r.key_points.s = <<>>
                /\ e.key_points.t = "list" => r.key_points = e.key_points
                /\ e.key_points.t \notin {"missing", "list"} =>
                      r.key_points.s = <<PyStr(e.key_points)>>
                /\ e.category.t = "missing" => r.category = JStr(DefaultCategory)
                /\ e.category.t # "missing" => r.category = e.category

\* One reply decoded into a result whose key_points was coerced from a string
\* and a result whose key_points and category were defaulted.
C21_Witness ==
    /\ dpc = "returned" /\ wellformed /\ ~decode_raised
    /\ \E k \in PopulatedPositions :
          /\ llm_elems[k].key_points.t = "str"
          /\ cleaned_results[k].key_points = JList(<<llm_elems[k].key_points.s[1]>>)
    /\ \E k \in PopulatedPositions :
          /\ llm_elems[k].key_points.t = "missing"
          /\ llm_elems[k].category.t = "missing"
          /\ cleaned_results[k].key_points = JList(<<>>)
          /\ cleaned_results[k].category = JStr(DefaultCategory)

(***************************************************************************)
(* What a run fetches (Spec).                                              *)
(***************************************************************************)
\* Ids of the rows whose classification flag is unclassified.
Unclassified == {id \in DOMAIN articles : articles[id].is_selected.t = "null"}

\* A step that starts a run.
RunStarts == runs' = runs + 1

C22_FetchStep ==
    RunStarts =>
       LET fetched == unfiltered_articles'
           n == Len(fetched)
       IN  /\ \A k \in 1..n : fetched[k] \in Unclassified
           /\ \A j, k \in 1..n : fetched[j] = fetched[k] => j = k
           /\ n = IF run_limit' = NoLimit THEN Cardinality(Unclassified)
                  ELSE Min2(run_limit', Cardinality(Unclassified))
           /\ stats'.total = n
           /\ n = 0 =>
                 /\ stats' = [total |-> 0, processed |-> 0, selected |-> 0,
                              rejected |-> 0, failed |-> 0]
                 /\ submissions' = 0
                 /\ ~CallOutstanding'

C22_FetchState ==
    /\ stats.total = Len(unfiltered_articles)
    /\ unfiltered_articles = <<>> => ~CallOutstanding /\ submissions = 0

FailedOutcomes == {"decode_failed", "write_failed"}

\* The ids get_unfiltered_articles returns to a later run without a limit.
FetchedAgain ==
    LET again == get_unfiltered_articles(NoLimit)
    IN  {again[k] : k \in 1..Len(again)}

C23_FailedState ==
    \A p \in Positions :
        outcome[p] \in FailedOutcomes =>
            /\ FullyUnclassified(RowAt(p))
            /\ RowAt(p).key_points = JNull
            /\ ~RowAt(p).filtered_at
            /\ unfiltered_articles[p] \in FetchedAgain

C23_FailedStep ==
    (pc = "write" /\ Pos \in Positions /\ outcome'[Pos] \in FailedOutcomes)
        => articles' = articles

\* C23: an article whose decoded result is absent, or whose write-back
\* failed, is left unchanged in the store: it stays unclassified with no
\* payload field and no filtered_at, and a later run fetches it again.
C23_FailedLeftUnclassified == []C23_FailedState /\ [][C23_FailedStep]_vars

(***************************************************************************)
(* Properties of the write-back (SpecUpdate).                              *)
(***************************************************************************)
\* The key points a row holds: its JSON text decoded, none when NULL.
StoredKeyPoints(row) == IF row.key_points.t = "json" THEN row.key_points.s ELSE <<>>

\* C24: after update_article_filter_result returned success for a result,
\* every payload field of the row equals the field of the result; a result
\* with no key points leaves none of an earlier write in the row.
C24_RowEqualsResult ==
    update_ret = "True" =>
        LET row == articles[last_call.article_id]
            r == last_call.filter_result
        IN  /\ row.is_selected = r.is_selected
            /\ row.quality_score = r.quality_score
            /\ row.relevance_score = r.relevance_score
            /\ row.filter_reason = r.reason
            /\ row.category = r.category
            /\ StoredKeyPoints(row) = r.key_points.s

(***************************************************************************)
(* Properties of two runs at the same time (SpecOverlap).                  *)
(***************************************************************************)
\* C25: when two runs overlap against the same store, no article is
\* submitted to the LLM by both and none gets a successful write-back from
\* both.
C25_NoDoubleProcessing ==
    /\ overlap_runs["daily"].submitted \cap overlap_runs["manual"].submitted = {}
    /\ overlap_runs["daily"].written \cap overlap_runs["manual"].written = {}

(***************************************************************************)
(* Properties of the ingestion runs (SpecMail).                            *)
(***************************************************************************)
\* An ingestion run has returned.
MailRunReturned == mail_pc = "idle" /\ mail_runs > 0

\* C26: ingestion does not lose articles: when a run that had no store error
\* has fetched again an email an earlier run recorded, every article of the
\* email is stored, also when the earlier save_articles for it had failed.
C26_NoArticleLost ==
    (MailRunReturned /\ ~run_error) =>
        \A k \in 1..Len(alert_emails) :
            alert_emails[k] \in SeqRange(rows_at_start) =>
                SeqRange(ArticlesOf(alert_emails[k])) \subseteq SeqRange(stored_urls)

\* Number of rows of the emails table with message_id m.
RowsWithId(m) == Cardinality({k \in 1..Len(email_rows) : email_rows[k] = m})

C29_IdempotentState ==
    /\ \A m \in MessageIds : RowsWithId(m) <= 1
    /\ mail_pc = "articles" =>
          /\ saved_email = "email"
          /\ alert_emails[mail_k] \notin SeqRange(rows_at_start)

C29_IdempotentStep ==
    (mail_pc = "email" /\ alert_emails[mail_k] \in SeqRange(email_rows)) =>
        /\ saved_email' = "None"
        /\ email_rows' = email_rows
        /\ stored_urls' = stored_urls
        /\ mail_pc' # "articles"

\* C29: save_alert_email of a stored message_id returns None and leaves the
\* store unchanged, so there is at most one email row per message_id, and
\* the loop does not save the articles of an already stored email again.
C29_SaveEmailIdempotent == []C29_IdempotentState /\ [][C29_IdempotentStep]_vars

\* A second run has met an email the first run stored with its articles.
C29_Witness ==
    /\ MailRunReturned
    /\ mail_runs = 2
    /\ saved_email = "None"
    /\ ~run_error
    /\ alert_emails # <<>>
    /\ alert_emails[Len(alert_emails)] \in SeqRange(rows_at_start)
    /\ SeqRange(ArticlesOf(alert_emails[Len(alert_emails)])) \subseteq SeqRange(stored_urls)

(***************************************************************************)
(* A store error in save_articles (SpecIngest).                            *)
(***************************************************************************)
\* C28: save_articles is all-or-nothing on a store error: a call that hit a
\* database error stores none of its articles, leaves the store as it was
\* and returns the empty list.
C28_SaveAllOrNothing ==
    [][(ingest_calls' = ingest_calls + 1 /\ last_save'.error_at > 0) =>
          /\ stored_urls' = stored_urls
          /\ last_saved' = <<>>]_vars

\* The commit of a call failed that had added two new articles to its
\* session, the store holding an article of an earlier call.
C28_Witness ==
    /\ last_save.error_at = Len(last_save.articles) + 1
    /\ Len(last_save.articles) = 2
    /\ \A k \in 1..2 : ~QueryByUrl(stored_urls, last_save.articles[k])
    /\ stored_urls # <<>>
    /\ last_saved = <<>>

(***************************************************************************)
(* Termination and number of API calls of a run (SpecTerm).                *)
(***************************************************************************)
\* The API calls a run of DeepSeekFilter may make at most.
MaxApiCalls == max_retries * BatchCount

\* While the run is going on it has submitted at most ceil(L/B) batches; once
\* it has returned it has submitted exactly that many, and DeepSeekFilter
\* made at most max_retries API attempts for each of them.
CallsBounded ==
    /\ submissions <= BatchCount
    /\ (RunReturned => submissions = BatchCount)
    /\ (impl = "deepseek" => api_calls <= MaxApiCalls)
    /\ (impl = "deepseek" /\ RunReturned => api_calls >= submissions)

\* C27: a run over L articles with batch_size B >= 1 always terminates, after
\* exactly ceil(L/B) batch submissions, and a DeepSeekFilter run makes at most
\* 3 * ceil(L/B) API calls, whatever the LLM answers and however often it
\* fails.
C27_RunTerminates ==
    /\ []CallsBounded
    /\ ((pc # "idle") ~> (pc = "idle"))

\* A DeepSeekFilter run of two batches has returned after every attempt of
\* both batches failed.
C27_Witness ==
    /\ RunReturned
    /\ runs = MaxRuns
    /\ impl = "deepseek"
    /\ BatchCount = 2
    /\ submissions = 2
    /\ api_calls = 2 * max_retries

====
